---- MODULE Spec2Model ----
(***************************************************************************)
(* pgmcp: an MCP gateway that turns questions into read-only SQL and runs  *)
(* it against PostgreSQL (server/main.go).                                 *)
(*                                                                         *)
(* Strings are sequences of one-character strings, so that the regular     *)
(* expressions and the strings.* calls of the server are computed, not     *)
(* assumed.  The text of an error value is a sequence of atoms (words,     *)
(* spaces, punctuation).                                                   *)
(***************************************************************************)
EXTENDS Integers, Sequences, FiniteSets, TLC

VARIABLES
    gate,       \* one run of the admission steps of ask / stream on one SQL string
    req,        \* one HTTP request to the MCP endpoint, in the bearer middleware
    proc,       \* the process: listener, invocations in flight, shutdown goroutine, pool
    unit,       \* one application of a pure function: input and result
    cfg,        \* Config
    cache,      \* SchemaCache: txt, expiresAt
    now,        \* time.Now(), in ticks
    table,      \* rows of the queried relation committed in the database
    pool,       \* pgxpool: connections checked out
    call,       \* the tool invocation in flight: handler position, locals, response
    audit,      \* the auditLog records of the invocation, in order
    qlog        \* the statements the invocation sent to the database, in order

srvVars == <<cfg, cache, now, table, pool, call, audit, qlog>>

\* the state outside the tool handlers and their admission steps
sideVars == <<req, proc, unit>>

vars == <<gate, req, proc, unit, cfg, cache, now, table, pool, call, audit, qlog>>

------------------------------------------------------------------------------
(* Characters and the strings package                                        *)

UpperLetters == <<"A","B","C","D","E","F","G","H","I","J","K","L","M",
                  "N","O","P","Q","R","S","T","U","V","W","X","Y","Z">>

LowerLetters == <<"a","b","c","d","e","f","g","h","i","j","k","l","m",
                  "n","o","p","q","r","s","t","u","v","w","x","y","z">>

Digits == <<"0","1","2","3","4","5","6","7","8","9">>

Range(f) == {f[i] : i \in DOMAIN f}

UpperSet == Range(UpperLetters)

WordSet == Range(UpperLetters) \cup Range(LowerLetters) \cup Range(Digits) \cup {"_"}

DigitSet == Range(Digits)

LowerOf == [c \in UpperSet |-> LowerLetters[CHOOSE i \in 1..26 : UpperLetters[i] = c]]

\* unicode.ToLower on one ASCII character
ToLowerCh(c) == IF c \in UpperSet THEN LowerOf[c] ELSE c

\* strings.ToLower
ToLower(s) == [i \in 1..Len(s) |-> ToLowerCh(s[i])]

\* the regexp class \w (ASCII), which decides \b
IsWordCh(c) == c \in WordSet

\* unicode.IsSpace on the ASCII range; the regexp class \s
IsSpaceCh(c) == c \in {" ", "\t", "\n", "\r", "\f"}

IsDigitCh(c) == c \in DigitSet

\* the back quote character (the lexer of TLA+ does not take it in a string)
BackQuote == "BQ"

\* sub occurs in s at index i (1-based)
HasPrefixAt(s, i, sub) ==
    /\ i >= 1
    /\ i + Len(sub) - 1 <= Len(s)
    /\ \A k \in 1..Len(sub) : s[i + k - 1] = sub[k]

\* sub, in lower case, occurs in s at index i whatever the case of s
HasPrefixFoldAt(s, i, sub) ==
    /\ i >= 1
    /\ i + Len(sub) - 1 <= Len(s)
    /\ \A k \in 1..Len(sub) : ToLowerCh(s[i + k - 1]) = sub[k]

\* strings.Contains
Contains(s, sub) == \E i \in 1..(Len(s) - Len(sub) + 1) : HasPrefixAt(s, i, sub)

\* of the places occ where a string of length n occurs, how many are met from
\* index i on, left to right, when an occurrence that overlaps the one before
\* is passed over
RECURSIVE CountFrom(_, _, _)
CountFrom(occ, n, i) ==
    LET later == {j \in occ : j >= i}
    IN  IF later = {} THEN 0
        ELSE 1 + CountFrom(occ, n, (CHOOSE j \in later : \A k \in later : j <= k) + n)

\* strings.Count for a non-empty sub: occurrences that do not overlap
Count(s, sub) == CountFrom({j \in 1..Len(s) : HasPrefixAt(s, j, sub)}, Len(sub), 1)

\* the first index from i on where s holds no space, Len(s) + 1 when none
RECURSIVE SkipSpaces(_, _)
SkipSpaces(s, i) ==
    IF i <= Len(s) /\ IsSpaceCh(s[i]) THEN SkipSpaces(s, i + 1) ELSE i

\* the last index up to j where s holds no space, 0 when none
RECURSIVE SkipSpacesBack(_, _)
SkipSpacesBack(s, j) ==
    IF j >= 1 /\ IsSpaceCh(s[j]) THEN SkipSpacesBack(s, j - 1) ELSE j

\* strings.TrimSpace
TrimSpace(s) == SubSeq(s, SkipSpaces(s, 1), SkipSpacesBack(s, Len(s)))

\* a replacement that leaves the string as it is
KeepQuotes(s) == s

\* strings.ReplaceAll(s, "'", "''")
RECURSIVE DoubleQuotes(_)
DoubleQuotes(s) ==
    IF s = <<>> THEN <<>>
    ELSE (IF Head(s) = "'" THEN <<"'", "'">> ELSE <<Head(s)>>) \o DoubleQuotes(Tail(s))

\* fmt's %d for a non-negative int
RECURSIVE Itoa(_)
Itoa(n) == IF n < 10 THEN <<Digits[n + 1]>> ELSE Itoa(n \div 10) \o <<Digits[(n % 10) + 1]>>

\* An error value: its text (Error()) as atoms and, as a ghost, the class of
\* failure that produced it (PostgreSQL's SQLSTATE class, a context error, ...).
Err(kind, msg) == [kind |-> kind, msg |-> msg]

\* the nil error
nil == Err("nil", <<>>)

------------------------------------------------------------------------------
(* The admission gate                                                         *)

\* the alternation of the regexp `mutating`, lower-cased (the regexp is (?i))
MutatingKeywordsNoSet ==
    { <<"i","n","s","e","r","t">>, <<"u","p","d","a","t","e">>, <<"d","e","l","e","t","e">>,
      <<"u","p","s","e","r","t">>, <<"m","e","r","g","e">>, <<"a","l","t","e","r">>,
      <<"d","r","o","p">>, <<"t","r","u","n","c","a","t","e">>, <<"v","a","c","u","u","m">>,
      <<"r","e","i","n","d","e","x">>, <<"g","r","a","n","t">>, <<"r","e","v","o","k","e">>,
      <<"c","r","e","a","t","e">>, <<"c","o","p","y">>, <<"r","o","l","l","b","a","c","k">>,
      <<"c","o","m","m","i","t">>, <<"b","e","g","i","n">>, <<"s","t","a","r","t">>,
      <<"s","a","v","e","p","o","i","n","t">>, <<"r","e","l","e","a","s","e">> }

MutatingKeywords == MutatingKeywordsNoSet \cup { <<"s","e","t">> }

\* \b between s[p] and s[p+1] (p = 0: before the first character; p = Len(s): after the last)
WordBoundaryAt(s, p) ==
    LET w(i) == i >= 1 /\ i <= Len(s) /\ IsWordCh(s[i])
    IN  w(p) # w(p + 1)

\* mutating.MatchString
MutatingMatch(s) ==
    \E i \in 1..Len(s) : \E kw \in MutatingKeywords :
        /\ HasPrefixFoldAt(s, i, kw)
        /\ WordBoundaryAt(s, i - 1)
        /\ WordBoundaryAt(s, i + Len(kw) - 1)

ErrWriteAttempt ==
    Err("write_attempt", <<"refusing", " ", "to", " ", "run", " ", "non-read-only", " ", "SQL">>)

ErrMultiStatement ==
    Err("multi_statement", <<"multiple", " ", "statements", " ", "not", " ", "allowed">>)

\* a guard that accepts every statement
guardNone(sql) == nil

\* guardReadOnly: the error it returns (nil: accepted)
guardReadOnly(sql) ==
    IF MutatingMatch(sql) THEN ErrWriteAttempt
    ELSE IF Count(sql, <<";">>) > 0 /\ TrimSpace(sql)[Len(TrimSpace(sql))] # ";"
         THEN ErrMultiStatement
         ELSE nil

SqlCrossJoin == <<"c","r","o","s","s"," ","j","o","i","n">>

SqlLeftJoin == <<"l","e","f","t"," ","j","o","i","n">>

SqlSpJoinSp == <<" ","j","o","i","n"," ">>

\* isExpensiveQuery
isExpensiveQuery(sql) ==
    LET sqlLower == ToLower(sql)
    IN  \/ Contains(sqlLower, SqlCrossJoin)
        \/ Contains(sqlLower, SqlLeftJoin)
        \/ Count(sqlLower, SqlSpJoinSp) > 2

\* "SELECT 'Query too complex - please try a simpler question or ask about individual tables' AS message LIMIT 1"
SqlTooComplex ==
    <<"S","E","L","E","C","T"," ","'","Q","u","e","r","y"," ","t","o","o"," ","c","o","m","p","l","e","x",
      " ","-"," ","p","l","e","a","s","e"," ","t","r","y"," ","a"," ","s","i","m","p","l","e","r"," ",
      "q","u","e","s","t","i","o","n"," ","o","r"," ","a","s","k"," ","a","b","o","u","t"," ",
      "i","n","d","i","v","i","d","u","a","l"," ","t","a","b","l","e","s","'"," ","A","S"," ",
      "m","e","s","s","a","g","e"," ","L","I","M","I","T"," ","1">>

\* a rewriter that leaves every statement as it is
simplifyNone(sql) == sql

\* simplifyExpensiveQuery
simplifyExpensiveQuery(sql) ==
    LET sqlLower == ToLower(sql)
    IN  IF \/ Contains(sqlLower, SqlLeftJoin)
           \/ Contains(sqlLower, SqlCrossJoin)
           \/ Count(sqlLower, SqlSpJoinSp) > 2
        THEN SqlTooComplex
        ELSE sql

\* handleAsk, from the guard to the call of the executor (dry_run = false):
\* the error returned by the guard, or the SQL handed to runStreamingQuery
AskAdmit(sql) ==
    LET e == guardReadOnly(sql)
    IN  IF e # nil THEN [err |-> e, ran |-> FALSE, sql |-> sql]
        ELSE [err |-> nil, ran |-> TRUE,
              sql |-> IF isExpensiveQuery(sql) THEN simplifyExpensiveQuery(sql) ELSE sql]

\* handleAsk with dry_run = true, lines 534-543: the error of the guard and
\* the SQL reported
AskDryRun(sql) == [err |-> guardReadOnly(sql), ran |-> FALSE, sql |-> sql]

\* handleStream, from the guard to the call of the executor
StreamAdmit(sql) ==
    LET e == guardReadOnly(sql)
    IN  IF e # nil THEN [err |-> e, ran |-> FALSE, sql |-> sql]
        ELSE [err |-> nil, ran |-> TRUE, sql |-> sql]

------------------------------------------------------------------------------
(* SQL strings the language model may answer with                             *)

\* "SELECT * FROM users"
SqlSelectUsers ==
    <<"S","E","L","E","C","T"," ","*"," ","F","R","O","M"," ","u","s","e","r","s">>

\* "SELECT * FROM users LIMIT 3"
SqlSelectLimit3 ==
    <<"S","E","L","E","C","T"," ","*"," ","F","R","O","M"," ","u","s","e","r","s"," ",
      "L","I","M","I","T"," ","3">>

\* "DELETE FROM users WHERE 1=1"
SqlDeleteUsers ==
    <<"D","E","L","E","T","E"," ","F","R","O","M"," ","u","s","e","r","s"," ",
      "W","H","E","R","E"," ","1","=","1">>

\* "UPDATE users SET name = 'x'"
SqlUpdateUsers ==
    <<"U","P","D","A","T","E"," ","u","s","e","r","s"," ","S","E","T"," ",
      "n","a","m","e"," ","="," ","'","x","'">>

\* "SELECT 1; SELECT 2;"
SqlTwoSelects ==
    <<"S","E","L","E","C","T"," ","1",";"," ","S","E","L","E","C","T"," ","2",";">>

\* "SELECT * FROM a LEFT JOIN b ON a.id = b.a_id"
SqlLeftJoinAB ==
    <<"S","E","L","E","C","T"," ","*"," ","F","R","O","M"," ","a"," ","L","E","F","T"," ",
      "J","O","I","N"," ","b"," ","O","N"," ","a",".","i","d"," ","="," ","b",".","a","_","i","d">>

\* "SELECT created_at FROM users"
SqlSelectCreatedAt ==
    <<"S","E","L","E","C","T"," ","c","r","e","a","t","e","d","_","a","t"," ",
      "F","R","O","M"," ","u","s","e","r","s">>

\* "SELEC COUNT(*) FROM users"
SqlSelecCount ==
    <<"S","E","L","E","C"," ","C","O","U","N","T","(","*",")"," ",
      "F","R","O","M"," ","u","s","e","r","s">>

\* "```sql\nSELECT * FROM users\n```"
SqlFenced ==
    <<BackQuote, BackQuote, BackQuote, "s","q","l","\n">> \o SqlSelectUsers
    \o <<"\n", BackQuote, BackQuote, BackQuote>>

------------------------------------------------------------------------------
(* The admission steps alone, on every short string and on the samples        *)

MaxSqlLen == 4

GateAlphabet == {"S", "e", "t", "_", ";", " "}

GateStrings == UNION { [1..n -> GateAlphabet] : n \in 0..MaxSqlLen }

GateSamples ==
    { SqlSelectUsers, SqlSelectLimit3, SqlDeleteUsers, SqlUpdateUsers, SqlTwoSelects,
      SqlLeftJoinAB, SqlSelectCreatedAt, SqlSelecCount }

\* no request, no process and no function application under study
ReqNone == [stage |-> "none"]

ProcNone == [phase |-> "none"]

UnitNone == [fn |-> "none"]

GateIdle == [tool |-> "none", sql |-> <<>>, stage |-> "idle", err |-> nil, ran |-> FALSE, exec |-> <<>>]

GateAsk ==
    /\ gate.stage = "new"
    /\ gate.tool = "ask"
    /\ LET r == AskAdmit(gate.sql)
       IN  gate' = [gate EXCEPT !.stage = "done", !.err = r.err, !.ran = r.ran, !.exec = r.sql]
    /\ UNCHANGED <<sideVars, srvVars>>

GateStream ==
    /\ gate.stage = "new"
    /\ gate.tool = "stream"
    /\ LET r == StreamAdmit(gate.sql)
       IN  gate' = [gate EXCEPT !.stage = "done", !.err = r.err, !.ran = r.ran, !.exec = r.sql]
    /\ UNCHANGED <<sideVars, srvVars>>

------------------------------------------------------------------------------
(* Program constants                                                          *)

defaultMaxRows == 200

schemaMaxChars == 18000

maxQueryLength == 10000

pageSize == 50

maxPagesAuto == 10

askAutoPages == 20

searchDefaultLimit == 50

searchMaxCols == 60

MaxConns == 8

truncatedMarkerLen == 26

------------------------------------------------------------------------------
(* Bounds of the model                                                        *)

MaxTableRows == 4       \* rows the queried relation may hold

MaxRowsIn == 3          \* largest max_rows a caller passes

MaxPageSizeIn == 2      \* largest page_size a caller passes

MaxPagesIn == 2         \* largest max_pages a caller passes

MaxLimitIn == 2         \* largest limit a caller passes to search

SmallMaxRows == 2       \* a small valid MAX_ROWS, besides the default

TTLTicks == 1           \* SCHEMA_TTL, in ticks

MaxTime == 1            \* the clock stops here

------------------------------------------------------------------------------
(* Helpers of the handlers                                                    *)

Min(a, b) == IF a < b THEN a ELSE b

Max(a, b) == IF a < b THEN b ELSE a

\* the width of Go's int, scaled down: the arithmetic below is that of a
\* two's complement int of IntBits bits (64 in the build)
IntBits == 16

MaxInt == 2 ^ (IntBits - 1) - 1

\* the value an int holds after an addition that left the range
WrapInt(x) == ((x + MaxInt + 1) % (2 * (MaxInt + 1))) - (MaxInt + 1)

\* Go's a / b: the quotient is truncated toward zero
GoDiv(a, b) ==
    IF (a >= 0) = (b > 0) THEN (IF a >= 0 THEN a ELSE 0 - a) \div (IF b > 0 THEN b ELSE 0 - b)
    ELSE 0 - ((IF a >= 0 THEN a ELSE 0 - a) \div (IF b > 0 THEN b ELSE 0 - b))

\* the quotient rounded up, without the limits of an int
CeilExact(a, b) == (a + b - 1) \div b

\* Go's (a + b - 1) / b
CeilDiv(a, b) == GoDiv(WrapInt(a + b - 1), b)

minNonZero(v, max) == IF v <= 0 THEN max ELSE IF v > max THEN max ELSE v

ErrEmptyInput == Err("empty_input", <<"input", " ", "cannot", " ", "be", " ", "empty">>)

ErrInputTooLong == Err("oversize_input", <<"input", " ", "too", " ", "long">>)

\* characters whose UTF-8 encoding takes two bytes, and three
TwoByteChars == {"é"}

ThreeByteChars == {"日"}

\* len(s) of a Go string: the bytes of its UTF-8 encoding
ByteLen(s) ==
    Len(s) + Cardinality({i \in 1..Len(s) : s[i] \in TwoByteChars})
           + 2 * Cardinality({i \in 1..Len(s) : s[i] \in ThreeByteChars})

\* sanitizeInput (the watch-list only logs a warning)
sanitizeInput(input) ==
    LET t == TrimSpace(input)
    IN  IF ByteLen(t) = 0 THEN ErrEmptyInput
        ELSE IF ByteLen(t) > maxQueryLength THEN ErrInputTooLong
        ELSE nil

\* auditLog: the record it writes
auditLog(event, success) == [event |-> event, success |-> success]

\* strings.Trim(s, "```"): every leading and trailing back quote goes
TrimBackquotes(s) ==
    LET keep == {i \in 1..Len(s) : s[i] # BackQuote}
    IN  IF keep = {} THEN <<>>
        ELSE LET lo == CHOOSE i \in keep : \A j \in keep : i <= j
                 hi == CHOOSE i \in keep : \A j \in keep : j <= i
             IN  SubSeq(s, lo, hi)

\* strings.TrimPrefix(s, "sql")
TrimPrefixSql(s) ==
    IF HasPrefixAt(s, 1, <<"s","q","l">>) THEN SubSeq(s, 4, Len(s)) ELSE s

\* generateSQL: what it makes of the content of the model's first choice
generateSQL(content) == TrimSpace(TrimPrefixSql(TrimBackquotes(TrimSpace(content))))

\* "model=" + s.model
NoteModel == <<"model=", "gpt-4o-mini">>

ErrLlm == Err("translation", <<"POST", " ", "chat/completions", ":", " ", "500">>)

\* what the language-model endpoint may answer
LlmResults ==
    { [err |-> nil, content |-> c] :
        c \in {SqlFenced, SqlSelectLimit3, SqlDeleteUsers, SqlLeftJoinAB} }
    \cup { [err |-> ErrLlm, content |-> <<>>] }

------------------------------------------------------------------------------
(* The schema summary and the catalog                                         *)

SchemaNone == [body |-> "", len |-> 0]

SchemaUsers == [body |-> "TABLE public.users(id integer PRIMARY KEY, name text)\n", len |-> 54]

ErrCatalog == Err("introspection", <<"timeout:", " ", "context", " ", "deadline", " ", "exceeded">>)

\* what loadSchema may return: the summary of the catalog or the error of the
\* catalog query
LoadSchemaResults ==
    { [err |-> nil, txt |-> SchemaUsers], [err |-> ErrCatalog, txt |-> SchemaNone] }

\* SchemaCache.Get, lines 114-116: the cut to schemaMaxChars and the marker
TruncateSchema(txt) ==
    IF txt.len > schemaMaxChars
    THEN [body |-> "truncated", len |-> schemaMaxChars + truncatedMarkerLen]
    ELSE txt

\* SchemaCache.Get, the fresh-entry test
CacheFresh == now < cache.expiresAt /\ cache.txt.len # 0

\* the text columns the catalog query of buildSearchSQL may enumerate
ColItemsName ==
    [s |-> <<"p","u","b","l","i","c">>, t |-> <<"i","t","e","m","s">>, c |-> <<"n","a","m","e">>]

ColUsersName ==
    [s |-> <<"p","u","b","l","i","c">>, t |-> <<"u","s","e","r","s">>, c |-> <<"n","a","m","e">>]

Catalogs == { <<>>, <<ColItemsName>>, <<ColItemsName, ColUsersName>> }

ErrNoSearchable == Err("no_text_columns", <<"no", " ", "searchable", " ", "columns">>)

\* buildSearchSQL, one branch of the UNION ALL (the Sprintf of line 1006)
SearchBranch(c, like) ==
    <<"S","E","L","E","C","T"," ","'">> \o c.s \o <<".">> \o c.t
    \o <<"'"," ","A","S"," ","s","o","u","r","c","e","_","t","a","b","l","e",","," ","'">> \o c.c
    \o <<"'"," ","A","S"," ","c","o","l","u","m","n",","," ","L","E","F","T","(","C","A","S","T","(","\"">> \o c.c
    \o <<"\""," ","A","S"," ","t","e","x","t",")",","," ","2","4","0",")"," ","A","S"," ",
         "m","a","t","c","h","_","t","e","x","t"," ","F","R","O","M"," ","\"">> \o c.s
    \o <<"\"",".","\"">> \o c.t
    \o <<"\""," ","W","H","E","R","E"," ","\"">> \o c.c
    \o <<"\""," ","I","L","I","K","E"," ","'","%">> \o like \o <<"%","'">>

\* the join of a branch for every column, however many there are
RECURSIVE JoinAllBranches(_, _, _)
JoinAllBranches(cols, like, i) ==
    IF i > Len(cols) THEN <<>>
    ELSE (IF i > 1 THEN <<"\n","U","N","I","O","N"," ","A","L","L","\n">> ELSE <<>>)
         \o SearchBranch(cols[i], like) \o JoinAllBranches(cols, like, i + 1)

\* strings.Join(parts, "\nUNION ALL\n") over the first searchMaxCols columns
RECURSIVE JoinBranches(_, _, _)
JoinBranches(cols, like, i) ==
    IF i > Len(cols) \/ i > searchMaxCols THEN <<>>
    ELSE (IF i > 1 THEN <<"\n","U","N","I","O","N"," ","A","L","L","\n">> ELSE <<>>)
         \o SearchBranch(cols[i], like) \o JoinBranches(cols, like, i + 1)

\* buildSearchSQL, given the columns its catalog query returned
buildSearchSQL(cols, q, limit) ==
    IF Len(cols) = 0 THEN [err |-> ErrNoSearchable, sql |-> <<>>]
    ELSE [err |-> nil,
          sql |-> <<"W","I","T","H"," ","u"," ","A","S"," ","(","\n">>
                  \o JoinBranches(cols, DoubleQuotes(q), 1)
                  \o <<"\n",")"," ","S","E","L","E","C","T"," ","*"," ","F","R","O","M"," ","u"," ",
                       "L","I","M","I","T"," ">> \o Itoa(limit)]

------------------------------------------------------------------------------
(* The database, as the executor sees it                                      *)

SqlLimitWord == <<"l","i","m","i","t">>

\* the regexp (?is)\bLIMIT\s+\d+ of runReadOnlyQuery
HasLimit(sql) ==
    \E i \in 1..Len(sql) :
        /\ HasPrefixFoldAt(sql, i, SqlLimitWord)
        /\ WordBoundaryAt(sql, i - 1)
        /\ SkipSpaces(sql, i + 5) > i + 5
        /\ SkipSpaces(sql, i + 5) <= Len(sql)
        /\ IsDigitCh(sql[SkipSpaces(sql, i + 5)])

\* strconv.Atoi of a run of digits
RECURSIVE Atoi(_)
Atoi(d) ==
    IF d = <<>> THEN 0
    ELSE 10 * Atoi(SubSeq(d, 1, Len(d) - 1))
         + ((CHOOSE i \in 1..10 : Digits[i] = d[Len(d)]) - 1)

\* the last index up to j where s holds no digit, 0 when none
RECURSIVE SkipDigitsBack(_, _)
SkipDigitsBack(s, j) ==
    IF j >= 1 /\ IsDigitCh(s[j]) THEN SkipDigitsBack(s, j - 1) ELSE j

\* PostgreSQL: the n of a LIMIT n that ends the statement, -1 when it has none
QueryLimit(sql) ==
    LET e0 == SkipSpacesBack(sql, Len(sql))
        e  == IF e0 >= 1 /\ sql[e0] = ";" THEN SkipSpacesBack(sql, e0 - 1) ELSE e0
        d  == SkipDigitsBack(sql, e)
        w  == SkipSpacesBack(sql, d)
    IN  IF d < e /\ w < d /\ HasPrefixFoldAt(sql, w - 4, SqlLimitWord) /\ WordBoundaryAt(sql, w - 5)
        THEN Atoi(SubSeq(sql, d + 1, e))
        ELSE -1

\* PostgreSQL: the rows statement sql yields when the relation holds tbl rows
\* (every row matches; a statement with no FROM yields one row)
QueryRows(sql, tbl) ==
    LET base == IF \E i \in 1..Len(sql) : HasPrefixFoldAt(sql, i, <<" ","f","r","o","m"," ">>)
                THEN tbl ELSE 1
        l    == QueryLimit(sql)
    IN  IF l >= 0 THEN Min(l, base) ELSE base

\* the page statement without its LIMIT
PageRowsNoLimit(sql, tbl, lim, off) ==
    [i \in 1..Max(0, QueryRows(sql, tbl) - off) |-> [row |-> off + i]]

\* PostgreSQL: WITH query AS (sql) SELECT * FROM query LIMIT lim OFFSET off
PageRows(sql, tbl, lim, off) ==
    LET n == Max(0, Min(lim, QueryRows(sql, tbl) - off))
    IN  [i \in 1..n |-> [row |-> off + i]]

IdentUserId == <<"user", "_", "id">>

IdentNoTable == <<"nonexistent", "_", "table">>

IdentColumnStats == <<"column", "_", "stats">>

IdentColumnTotal == <<"column", "_", "total">>

\* pgconn.PgError.Error() for SQLSTATE 42703
ErrUndefinedColumn(id) ==
    Err("column_not_found",
        <<"ERROR:", " ", "column", " ", "\"">> \o id \o <<"\"", " ", "does", " ", "not", " ", "exist",
          " ", "(SQLSTATE 42703)">>)

\* SQLSTATE 42P01
ErrUndefinedTable(id) ==
    Err("relation_not_found",
        <<"ERROR:", " ", "relation", " ", "\"">> \o id \o <<"\"", " ", "does", " ", "not", " ", "exist",
          " ", "(SQLSTATE 42P01)">>)

\* SQLSTATE 42601
ErrSyntax ==
    Err("syntax_error",
        <<"ERROR:", " ", "syntax", " ", "error", " ", "at", " ", "or", " ", "near", " ", "\"", "SELEC", "\"",
          " ", "(SQLSTATE 42601)">>)

\* SQLSTATE 42883
ErrUndefinedFunction(id) ==
    Err("undefined_function",
        <<"ERROR:", " ", "function", " ">> \o id \o <<"(integer)", " ", "does", " ", "not", " ", "exist",
          " ", "(SQLSTATE 42883)">>)

\* SQLSTATE 22012
ErrDivisionByZero ==
    Err("division_by_zero", <<"ERROR:", " ", "division", " ", "by", " ", "zero", " ", "(SQLSTATE 22012)">>)

\* the deadline of ctxTO passed
ErrDeadline == Err("timeout", <<"timeout:", " ", "context", " ", "deadline", " ", "exceeded">>)

\* the caller's context was cancelled
ErrCanceled == Err("cancelled", <<"context", " ", "canceled">>)

\* how a statement may fail while its rows are computed or awaited
RunErrors == { ErrDeadline, ErrCanceled }

\* how a statement may fail: when it is parsed and analysed, or later
QueryErrors ==
    { ErrUndefinedColumn(IdentUserId), ErrUndefinedTable(IdentNoTable),
      ErrUndefinedTable(IdentColumnStats), ErrSyntax, ErrUndefinedFunction(IdentColumnTotal),
      ErrDivisionByZero }
    \cup RunErrors

\* how Acquire, BeginTx and Commit may fail
ConnErrors == { ErrDeadline }

\* fmt.Errorf("failed to get total count: %w", err)
WrapCountErr(e) == Err(e.kind, <<"failed", " ", "to", " ", "get", " ", "total", " ", "count", ":", " ">> \o e.msg)

------------------------------------------------------------------------------
(* One tool invocation                                                        *)

\* askInput, searchInput and streamInput in one record
InNone ==
    [Query |-> <<>>, Q |-> <<>>, MaxRows |-> 0, DryRun |-> FALSE, PageSize |-> 0,
     MaxPages |-> 0, Limit |-> 0]

\* askOutput, searchOutput and streamOutput in one record
OutNone ==
    [SQL |-> <<>>, Rows |-> <<>>, Note |-> <<>>, Pages |-> <<>>, TotalRows |-> 0,
     TotalPages |-> 0, HasMore |-> FALSE]

TxNone == [id |-> 0, mode |-> "none", state |-> "none"]

CallIdle ==
    [pc |-> "idle", tool |-> "none", in |-> InNone, schemaTxt |-> SchemaNone,
     sql |-> <<>>, note |-> <<>>, pageSize |-> 0, maxPages |-> 0, limit |-> 0,
     exec |-> "none", conn |-> 0, tx |-> TxNone, totalCount |-> 0, pagesToFetch |-> 0,
     page |-> 0, pages |-> <<>>, rows |-> <<>>, acquires |-> 0, execErr |-> nil,
     gen |-> <<>>, out |-> OutNone, err |-> nil]

\* "how many"
QuestionHowMany == <<"h","o","w"," ","m","a","n","y">>

QuestionBlank == <<" ">>

SearchTerms == { <<"u","p","d","a","t","e">>, <<"i","t","'","s">> }

\* the arguments callers pass to ask
AskInputs ==
    { [InNone EXCEPT !.Query = QuestionBlank],
      [InNone EXCEPT !.Query = QuestionHowMany, !.DryRun = TRUE] }
    \cup { [InNone EXCEPT !.Query = QuestionHowMany, !.MaxRows = mr, !.PageSize = ps] :
               mr \in 0..MaxRowsIn, ps \in 0..MaxPageSizeIn }

\* the arguments callers pass to stream
StreamInputs ==
    { [InNone EXCEPT !.Query = QuestionBlank] }
    \cup { [InNone EXCEPT !.Query = QuestionHowMany, !.MaxPages = mp, !.PageSize = ps] :
               mp \in 0..MaxPagesIn, ps \in 0..MaxPageSizeIn }

\* the arguments callers pass to search
SearchInputs ==
    { [InNone EXCEPT !.Q = QuestionBlank] }
    \cup { [InNone EXCEPT !.Q = q, !.Limit = lim] : q \in SearchTerms, lim \in 0..MaxLimitIn }

\* pgx.TxOptions of the executors
BeginTxOptionsDefault == [AccessMode |-> "read write"]

BeginTxOptions == [AccessMode |-> "read only"]

\* a statement sent on the transaction of the invocation
TxStmt(kind, sql, lim, off) ==
    [stmt |-> kind, sql |-> sql, limit |-> lim, offset |-> off, conn |-> call.conn,
     tx |-> call.tx.id, txState |-> call.tx.state, mode |-> call.tx.mode]

\* a statement sent with db.Query: on a connection of the pool, in no transaction
PoolStmt(kind, sql) ==
    [stmt |-> kind, sql |-> sql, limit |-> 0, offset |-> 0, conn |-> pool + 1,
     tx |-> 0, txState |-> "none", mode |-> "none"]

RECURSIVE Flatten(_)
Flatten(pages) ==
    IF pages = <<>> THEN <<>> ELSE Head(pages).Rows \o Flatten(Tail(pages))

PatColumn == <<"column">>

PatDoesNotExist == <<"does", " ", "not", " ", "exist">>

PatRelation == <<"relation">>

PatSyntaxError == <<"syntax", " ", "error">>

ErrorRow(e, sug, sql) == [error |-> e, suggestion |-> sug, original_sql |-> sql]

\* handleAsk, lines 571-650: what it returns once runStreamingQuery returned
handleAskReturn(c, pages, totalRows, err) ==
    IF err # nil THEN
        IF Contains(err.msg, PatColumn) /\ Contains(err.msg, PatDoesNotExist) THEN
            [out |-> [OutNone EXCEPT
                        !.SQL = c.sql,
                        !.Rows = <<ErrorRow("Column not found in generated query",
                                            "Try rephrasing your question or ask about specific tables",
                                            c.sql)>>,
                        !.Note = c.note \o <<" (query failed - column not found)">>],
             err |-> nil, audit |-> <<auditLog("ask_query_failed", FALSE)>>]
        ELSE IF Contains(err.msg, PatRelation) /\ Contains(err.msg, PatDoesNotExist) THEN
            [out |-> [OutNone EXCEPT
                        !.SQL = c.sql,
                        !.Rows = <<ErrorRow("Table not found in generated query",
                                            "Check available tables or rephrase your question",
                                            c.sql)>>,
                        !.Note = c.note \o <<" (query failed - table not found)">>],
             err |-> nil, audit |-> <<auditLog("ask_query_failed", FALSE)>>]
        ELSE IF Contains(err.msg, PatSyntaxError) THEN
            [out |-> [OutNone EXCEPT
                        !.SQL = c.sql,
                        !.Rows = <<ErrorRow("SQL syntax error in generated query",
                                            "Try rephrasing your question more clearly",
                                            c.sql)>>,
                        !.Note = c.note \o <<" (query failed - syntax error)">>],
             err |-> nil, audit |-> <<auditLog("ask_query_failed", FALSE)>>]
        ELSE
            [out |-> [OutNone EXCEPT !.SQL = c.sql], err |-> err,
             audit |-> <<auditLog("ask_query_failed", FALSE)>>]
    ELSE
        [out |-> [OutNone EXCEPT
                    !.SQL = c.sql,
                    !.Rows = Flatten(pages),
                    !.Note = c.note \o <<" (streamed ">> \o Itoa(Len(pages)) \o <<" pages)">>],
         err |-> nil, audit |-> <<auditLog("ask_success", TRUE)>>]

\* handleStream, lines 733-751
handleStreamReturn(c, pages, totalRows, err) ==
    IF err # nil THEN
        [out |-> [OutNone EXCEPT !.SQL = c.sql], err |-> err,
         audit |-> <<auditLog("stream_query_failed", FALSE)>>]
    ELSE
        [out |-> [OutNone EXCEPT
                    !.SQL = c.sql,
                    !.Pages = pages,
                    !.TotalRows = totalRows,
                    !.TotalPages = CeilDiv(totalRows, c.pageSize),
                    !.Note = c.note],
         err |-> nil, audit |-> <<auditLog("stream_success", TRUE)>>]

\* handleSearch, lines 684-691
handleSearchReturn(c, rows, err) ==
    IF err # nil THEN
        [out |-> [OutNone EXCEPT !.SQL = c.sql], err |-> err,
         audit |-> <<auditLog("search_query_failed", FALSE)>>]
    ELSE
        [out |-> [OutNone EXCEPT !.SQL = c.sql, !.Rows = rows],
         err |-> nil, audit |-> <<auditLog("search_success", TRUE)>>]

\* an executor that returns without its deferred calls: the transaction stays
\* as it is and the connection stays checked out
ExecutorReturnNoDefer(pages, rows, totalRows, err, txState) ==
    LET r == IF call.tool = "ask" THEN handleAskReturn(call, pages, totalRows, err)
             ELSE IF call.tool = "stream" THEN handleStreamReturn(call, pages, totalRows, err)
             ELSE handleSearchReturn(call, rows, err)
    IN  /\ call' = [call EXCEPT !.pc = "returned", !.out = r.out, !.err = r.err,
                                !.execErr = err]
        /\ audit' = audit \o r.audit
        /\ pool' = pool

\* the executor returns (pages, totalRows, err) or (rows, err) to its handler;
\* its deferred calls have rolled back a transaction still open (txState) and
\* released the connection
ExecutorReturn(pages, rows, totalRows, err, txState) ==
    LET r == IF call.tool = "ask" THEN handleAskReturn(call, pages, totalRows, err)
             ELSE IF call.tool = "stream" THEN handleStreamReturn(call, pages, totalRows, err)
             ELSE handleSearchReturn(call, rows, err)
    IN  /\ call' = [call EXCEPT !.pc = "returned", !.out = r.out, !.err = r.err,
                                !.execErr = err, !.conn = 0, !.tx.state = txState]
        /\ audit' = audit \o r.audit
        /\ pool' = IF call.conn # 0 THEN pool - 1 ELSE pool

------------------------------------------------------------------------------
(* The handlers, up to the executor                                           *)

\* handleAsk, lines 499-512: a request arrives and is sanitized
AskStart ==
    /\ call.pc = "idle"
    /\ \E in \in AskInputs :
          LET e == sanitizeInput(in.Query)
          IN  IF e # nil
              THEN /\ call' = [CallIdle EXCEPT !.pc = "returned", !.tool = "ask", !.in = in, !.err = e]
                   /\ audit' = <<auditLog("ask_input_validation_failed", FALSE)>>
              ELSE /\ call' = [CallIdle EXCEPT !.pc = "schema", !.tool = "ask", !.in = in]
                   /\ audit' = <<>>
    /\ qlog' = <<>>
    /\ UNCHANGED <<sideVars, gate, cfg, cache, now, table, pool>>

\* handleStream, lines 694-706
StreamStart ==
    /\ call.pc = "idle"
    /\ \E in \in StreamInputs :
          LET e == sanitizeInput(in.Query)
          IN  IF e # nil
              THEN /\ call' = [CallIdle EXCEPT !.pc = "returned", !.tool = "stream", !.in = in, !.err = e]
                   /\ audit' = <<auditLog("stream_input_validation_failed", FALSE)>>
              ELSE /\ call' = [CallIdle EXCEPT !.pc = "schema", !.tool = "stream", !.in = in]
                   /\ audit' = <<>>
    /\ qlog' = <<>>
    /\ UNCHANGED <<sideVars, gate, cfg, cache, now, table, pool>>

\* handleSearch, lines 662-674
SearchStart ==
    /\ call.pc = "idle"
    /\ \E in \in SearchInputs :
          LET e == sanitizeInput(in.Q)
          IN  IF e # nil
              THEN /\ call' = [CallIdle EXCEPT !.pc = "returned", !.tool = "search", !.in = in, !.err = e]
                   /\ audit' = <<auditLog("search_input_validation_failed", FALSE)>>
              ELSE /\ call' = [CallIdle EXCEPT !.pc = "build", !.tool = "search", !.in = in,
                                               !.limit = minNonZero(in.Limit, searchDefaultLimit)]
                   /\ audit' = <<>>
    /\ qlog' = <<>>
    /\ UNCHANGED <<sideVars, gate, cfg, cache, now, table, pool>>

\* SchemaCache.Get, called by handleAsk (514-518) and handleStream (708-712):
\* a fresh entry is returned; otherwise loadSchema queries the catalog with
\* db.Query, on a connection of the pool, and its summary is stored
SchemaGet ==
    /\ call.pc = "schema"
    /\ \/ /\ CacheFresh
          /\ call' = [call EXCEPT !.pc = "llm", !.schemaTxt = cache.txt]
          /\ UNCHANGED <<cache, qlog, audit>>
       \/ /\ ~CacheFresh
          /\ pool < MaxConns
          /\ qlog' = Append(qlog, PoolStmt("schema", <<>>))
          /\ \E r \in LoadSchemaResults :
                IF r.err # nil
                THEN /\ call' = [call EXCEPT !.pc = "returned", !.err = r.err,
                                             !.acquires = call.acquires + 1]
                     /\ UNCHANGED <<cache, audit>>
                ELSE /\ cache' = [txt |-> TruncateSchema(r.txt), expiresAt |-> now + cfg.SchemaTTL]
                     /\ call' = [call EXCEPT !.pc = "llm", !.schemaTxt = TruncateSchema(r.txt),
                                             !.acquires = call.acquires + 1]
                     /\ UNCHANGED audit
    /\ UNCHANGED <<sideVars, gate, cfg, now, table, pool>>

\* handleAsk, lines 520-524
AskPageSize(in) ==
    LET ps == minNonZero(in.PageSize, pageSize)
    IN  IF in.MaxRows > 0 THEN minNonZero(in.MaxRows, ps) ELSE ps

\* handleAsk, lines 565-568
AskMaxPages(in, ps) ==
    IF in.MaxRows > 0 THEN CeilDiv(in.MaxRows, ps) ELSE askAutoPages

\* handleStream, line 715
StreamMaxPages(in) == minNonZero(in.MaxPages, maxPagesAuto)

\* handleStream, line 716
StreamPageSize(in) == minNonZero(in.PageSize, pageSize)

\* handleAsk, lines 520-570: the language model answers; the SQL is guarded,
\* rewritten when expensive, and handed to runStreamingQuery
AskGenerate ==
    /\ call.pc = "llm"
    /\ call.tool = "ask"
    /\ \E r \in LlmResults :
          LET ps  == AskPageSize(call.in)
              sql == generateSQL(r.content)
              a   == AskAdmit(sql)
          IN  IF r.err # nil THEN
                  /\ call' = [call EXCEPT !.pc = "returned", !.pageSize = ps, !.err = r.err]
                  /\ audit' = Append(audit, auditLog("ask_sql_generation_failed", FALSE))
              ELSE IF call.in.DryRun THEN
                  /\ call' = [call EXCEPT !.pc = "returned", !.pageSize = ps,
                                          !.sql = AskDryRun(sql).sql, !.gen = sql,
                                          !.note = NoteModel, !.err = AskDryRun(sql).err,
                                          !.out = [OutNone EXCEPT !.SQL = AskDryRun(sql).sql,
                                                                  !.Note = NoteModel]]
                  /\ audit' = Append(audit,
                                     IF AskDryRun(sql).err # nil
                                     THEN auditLog("ask_dry_run_guard_failed", FALSE)
                                     ELSE auditLog("ask_dry_run_success", TRUE))
              ELSE IF a.err # nil THEN
                  /\ call' = [call EXCEPT !.pc = "returned", !.pageSize = ps, !.sql = sql,
                                          !.gen = sql,
                                          !.note = NoteModel, !.err = a.err,
                                          !.out = [OutNone EXCEPT !.SQL = sql]]
                  /\ audit' = Append(audit, auditLog("ask_guard_failed", FALSE))
              ELSE
                  /\ call' = [call EXCEPT !.pc = "acquire", !.exec = "stream", !.pageSize = ps,
                                          !.sql = a.sql, !.gen = sql, !.note = NoteModel,
                                          !.maxPages = AskMaxPages(call.in, ps)]
                  /\ UNCHANGED audit
    /\ UNCHANGED <<sideVars, gate, cfg, cache, now, table, pool, qlog>>

\* handleStream, lines 714-732
StreamGenerate ==
    /\ call.pc = "llm"
    /\ call.tool = "stream"
    /\ \E r \in LlmResults :
          LET mp  == StreamMaxPages(call.in)
              ps  == StreamPageSize(call.in)
              sql == generateSQL(r.content)
              a   == StreamAdmit(sql)
          IN  IF r.err # nil THEN
                  /\ call' = [call EXCEPT !.pc = "returned", !.pageSize = ps, !.maxPages = mp,
                                          !.err = r.err]
                  /\ audit' = Append(audit, auditLog("stream_sql_generation_failed", FALSE))
              ELSE IF a.err # nil THEN
                  /\ call' = [call EXCEPT !.pc = "returned", !.pageSize = ps, !.maxPages = mp,
                                          !.sql = sql, !.gen = sql, !.note = NoteModel,
                                          !.err = a.err,
                                          !.out = [OutNone EXCEPT !.SQL = sql]]
                  /\ audit' = Append(audit, auditLog("stream_guard_failed", FALSE))
              ELSE
                  /\ call' = [call EXCEPT !.pc = "acquire", !.exec = "stream", !.pageSize = ps,
                                          !.maxPages = mp, !.sql = a.sql, !.gen = sql,
                                          !.note = NoteModel]
                  /\ UNCHANGED audit
    /\ UNCHANGED <<sideVars, gate, cfg, cache, now, table, pool, qlog>>

\* handleSearch, lines 675-683: buildSearchSQL queries the catalog with db.Query
\* and builds the statement, which goes to runReadOnlyQuery
SearchBuild ==
    /\ call.pc = "build"
    /\ pool < MaxConns
    /\ qlog' = Append(qlog, PoolStmt("catalog", <<>>))
    /\ \/ \E e \in ConnErrors :
             /\ call' = [call EXCEPT !.pc = "returned", !.err = e, !.acquires = call.acquires + 1]
             /\ audit' = Append(audit, auditLog("search_sql_build_failed", FALSE))
       \/ \E cols \in Catalogs :
             LET b == buildSearchSQL(cols, call.in.Q, call.limit)
             IN  IF b.err # nil
                 THEN /\ call' = [call EXCEPT !.pc = "returned", !.err = b.err,
                                              !.acquires = call.acquires + 1]
                      /\ audit' = Append(audit, auditLog("search_sql_build_failed", FALSE))
                 ELSE /\ call' = [call EXCEPT !.pc = "acquire", !.exec = "readonly", !.sql = b.sql,
                                              !.acquires = call.acquires + 1]
                      /\ UNCHANGED audit
    /\ UNCHANGED <<sideVars, gate, cfg, cache, now, table, pool>>

------------------------------------------------------------------------------
(* The executors: runStreamingQuery (ask, stream) and runReadOnlyQuery (search) *)

\* s.db.Acquire(ctxTO)
Acquire ==
    /\ call.pc = "acquire"
    /\ \/ /\ pool < MaxConns
          /\ pool' = pool + 1
          /\ call' = [call EXCEPT !.pc = "begin", !.conn = pool + 1, !.acquires = call.acquires + 1]
          /\ UNCHANGED audit
       \/ \E e \in ConnErrors : ExecutorReturn(<<>>, <<>>, 0, e, "none")
    /\ UNCHANGED <<sideVars, gate, cfg, cache, now, table, qlog>>

\* conn.BeginTx(ctxTO, pgx.TxOptions{AccessMode: pgx.ReadOnly})
BeginTx ==
    /\ call.pc = "begin"
    /\ \/ /\ call' = [call EXCEPT
                        !.pc = IF call.exec = "stream" THEN "count" ELSE "query",
                        !.tx = [id |-> call.tx.id + 1, mode |-> BeginTxOptions.AccessMode,
                                state |-> "open"]]
          /\ UNCHANGED <<pool, audit>>
       \/ \E e \in ConnErrors : ExecutorReturn(<<>>, <<>>, 0, e, "none")
    /\ UNCHANGED <<sideVars, gate, cfg, cache, now, table, qlog>>

\* runStreamingQuery, lines 916-923: the COUNT query and the page plan
CountQuery ==
    /\ call.pc = "count"
    /\ qlog' = Append(qlog, TxStmt("count", call.sql, 0, 0))
    /\ \/ LET totalCount   == QueryRows(call.sql, table)
              totalPages   == CeilDiv(totalCount, call.pageSize)
              pagesToFetch == minNonZero(call.maxPages, totalPages)
          IN  /\ call' = [call EXCEPT !.pc = IF 0 < pagesToFetch THEN "page" ELSE "commit",
                                      !.totalCount = totalCount, !.pagesToFetch = pagesToFetch,
                                      !.page = 0]
              /\ UNCHANGED <<pool, audit>>
       \/ \E e \in QueryErrors : ExecutorReturn(<<>>, <<>>, 0, WrapCountErr(e), "rolled back")
    /\ UNCHANGED <<sideVars, gate, cfg, cache, now, table>>

\* runStreamingQuery, lines 928-966: one turn of the page loop
PageQuery ==
    /\ call.pc = "page"
    /\ LET offset == call.page * call.pageSize
       IN  /\ qlog' = Append(qlog, TxStmt("page", call.sql, call.pageSize, offset))
           /\ \/ LET pageRows == PageRows(call.sql, table, call.pageSize, offset)
                     last     == Len(pageRows) < call.pageSize
                                 \/ ~(call.page + 1 < call.pagesToFetch)
                 IN  /\ call' = [call EXCEPT
                                   !.pages = Append(call.pages, [Page |-> call.page, Rows |-> pageRows]),
                                   !.page = IF Len(pageRows) < call.pageSize
                                            THEN call.page ELSE call.page + 1,
                                   !.pc = IF last THEN "commit" ELSE "page"]
                     /\ UNCHANGED <<pool, audit>>
              \/ \E e \in RunErrors : ExecutorReturn(<<>>, <<>>, 0, e, "rolled back")
    /\ UNCHANGED <<sideVars, gate, cfg, cache, now, table>>

\* "WITH q AS (%s) SELECT * FROM q LIMIT %d"
WrapLimit(sql, limit) ==
    <<"W","I","T","H"," ","q"," ","A","S"," ","(">> \o sql
    \o <<")"," ","S","E","L","E","C","T"," ","*"," ","F","R","O","M"," ","q"," ",
         "L","I","M","I","T"," ">> \o Itoa(limit)

\* runReadOnlyQuery, lines 784-808: the statement, wrapped when it has no LIMIT
ReadOnlyQuery ==
    /\ call.pc = "query"
    /\ LET sql == IF ~HasLimit(call.sql) THEN WrapLimit(call.sql, call.limit) ELSE call.sql
       IN  /\ qlog' = Append(qlog, TxStmt("query", sql, 0, 0))
           /\ \/ /\ call' = [call EXCEPT !.pc = "commit",
                                         !.rows = PageRows(sql, table, QueryRows(sql, table), 0)]
                 /\ UNCHANGED <<pool, audit>>
              \/ \E e \in QueryErrors : ExecutorReturn(<<>>, <<>>, 0, e, "rolled back")
    /\ UNCHANGED <<sideVars, gate, cfg, cache, now, table>>

\* tx.Commit(ctxTO) and the return of the executor
Commit ==
    /\ call.pc = "commit"
    /\ \/ ExecutorReturn(call.pages, call.rows, call.totalCount, nil, "committed")
       \/ \E e \in ConnErrors : ExecutorReturn(<<>>, <<>>, 0, e, "rolled back")
    /\ UNCHANGED <<sideVars, gate, cfg, cache, now, table, qlog>>

\* the result is written to the client and the handler's goroutine ends
Reply ==
    /\ call.pc = "returned"
    /\ call' = CallIdle
    /\ audit' = <<>>
    /\ qlog' = <<>>
    /\ UNCHANGED <<sideVars, gate, cfg, cache, now, table, pool>>

------------------------------------------------------------------------------
(* The environment                                                            *)

\* another session commits an insert or a delete on the queried relation
\* between two statements of runStreamingQuery (its transaction runs at the
\* default isolation level, where every statement sees what is committed)
DbWrite ==
    /\ call.pc = "page"
    /\ \E t \in {table - 1, table + 1} :
          /\ t \in 0..MaxTableRows
          /\ table' = t
    /\ UNCHANGED <<sideVars, gate, cfg, cache, now, pool, call, audit, qlog>>

\* time passes (only SchemaCache.Get reads the clock)
Tick ==
    /\ call.pc = "idle"
    /\ now < MaxTime
    /\ now' = now + 1
    /\ UNCHANGED <<sideVars, gate, cfg, cache, table, pool, call, audit, qlog>>

------------------------------------------------------------------------------
(* Specifications                                                             *)

\* newServer: nothing cached, no connection checked out
ServerInit ==
    /\ cfg \in { [MaxRows |-> m, SchemaTTL |-> TTLTicks] : m \in {SmallMaxRows, defaultMaxRows} }
    /\ cache = [txt |-> SchemaNone, expiresAt |-> 0]
    /\ now = 0
    /\ table \in 0..MaxTableRows
    /\ pool = 0
    /\ call = CallIdle
    /\ audit = <<>>
    /\ qlog = <<>>

SideInit ==
    /\ req = ReqNone
    /\ proc = ProcNone
    /\ unit = UnitNone

Init ==
    /\ gate = GateIdle
    /\ SideInit
    /\ ServerInit

Next ==
    \/ AskStart
    \/ StreamStart
    \/ SearchStart
    \/ SchemaGet
    \/ AskGenerate
    \/ StreamGenerate
    \/ SearchBuild
    \/ Acquire
    \/ BeginTx
    \/ CountQuery
    \/ PageQuery
    \/ ReadOnlyQuery
    \/ Commit
    \/ Reply
    \/ DbWrite
    \/ Tick

Spec == Init /\ [][Next]_vars

\* the admission steps on their own
GateInit ==
    /\ gate \in [tool : {"ask", "stream"}, sql : GateStrings \cup GateSamples, stage : {"new"},
                 err : {nil}, ran : {FALSE}, exec : {<<>>}]
    /\ SideInit
    /\ cfg = [MaxRows |-> defaultMaxRows, SchemaTTL |-> TTLTicks]
    /\ cache = [txt |-> SchemaNone, expiresAt |-> 0]
    /\ now = 0
    /\ table = 0
    /\ pool = 0
    /\ call = CallIdle
    /\ audit = <<>>
    /\ qlog = <<>>

GateNext == GateAsk \/ GateStream

SpecGate == GateInit /\ [][GateNext]_vars

------------------------------------------------------------------------------
(* Properties                                                                 *)

\* the keywords as the specification lists them
ListedKeywords ==
    { <<"I","N","S","E","R","T">>, <<"U","P","D","A","T","E">>, <<"D","E","L","E","T","E">>,
      <<"U","P","S","E","R","T">>, <<"M","E","R","G","E">>, <<"A","L","T","E","R">>,
      <<"D","R","O","P">>, <<"T","R","U","N","C","A","T","E">>, <<"V","A","C","U","U","M">>,
      <<"R","E","I","N","D","E","X">>, <<"G","R","A","N","T">>, <<"R","E","V","O","K","E">>,
      <<"C","R","E","A","T","E">>, <<"C","O","P","Y">>, <<"R","O","L","L","B","A","C","K">>,
      <<"C","O","M","M","I","T">>, <<"B","E","G","I","N">>, <<"S","T","A","R","T">>,
      <<"S","A","V","E","P","O","I","N","T">>, <<"R","E","L","E","A","S","E">>,
      <<"S","E","T">> }

\* the words of s: its maximal runs of letters, digits and underscores
WordsOf(s) ==
    { SubSeq(s, i, j) : <<i, j>> \in
        { x \in (1..Len(s)) \X (1..Len(s)) :
            /\ x[1] <= x[2]
            /\ \A k \in x[1]..x[2] : IsWordCh(s[k])
            /\ (x[1] = 1 \/ ~IsWordCh(s[x[1] - 1]))
            /\ (x[2] = Len(s) \/ ~IsWordCh(s[x[2] + 1])) } }

EqualFold(a, b) == Len(a) = Len(b) /\ \A k \in 1..Len(a) : ToLowerCh(a[k]) = ToLowerCh(b[k])

\* s holds a listed keyword as a whole word, in any case
HasListedKeyword(s) == \E w \in WordsOf(s) : \E kw \in ListedKeywords : EqualFold(w, kw)

\* C1: a string the guard accepts holds no listed keyword as a whole word, in
\* any case, and neither does the SQL that ask or stream hands to the executor
C1_NoMutatingKeyword ==
    gate.stage = "done" =>
        /\ (gate.err = nil => ~HasListedKeyword(gate.sql))
        /\ (gate.ran => ~HasListedKeyword(gate.exec))

\* C1: the guard accepted a string that holds "set" inside a longer word
C1_Witness ==
    /\ gate.stage = "done"
    /\ gate.err = nil
    /\ gate.ran
    /\ Contains(ToLower(gate.sql), <<"s","e","t">>)

\* C2: a string the guard accepts holds a semicolon only as the last character
\* of the trimmed string
C2_SemicolonOnlyLast ==
    (gate.stage = "done" /\ gate.err = nil) =>
        LET t == TrimSpace(gate.sql)
        IN  \A i \in 1..Len(t) : t[i] = ";" => i = Len(t)

\* the statements runStreamingQuery sent: its COUNT query and its page queries
StreamStmts == { i \in 1..Len(qlog) : qlog[i].stmt \in {"count", "page"} }

\* C3: the COUNT query and every page query of a run of the streaming executor
\* go out on one connection, inside one transaction opened read only and still
\* open when the statement is sent
C3_OneReadOnlyTx ==
    \A i \in StreamStmts :
        /\ qlog[i].conn # 0
        /\ qlog[i].tx # 0
        /\ qlog[i].mode = "read only"
        /\ qlog[i].txState = "open"
        /\ \A j \in StreamStmts : qlog[j].conn = qlog[i].conn /\ qlog[j].tx = qlog[i].tx

\* C3: a run that committed after its COUNT query and two page queries
C3_Witness ==
    /\ call.pc = "returned"
    /\ call.tx.state = "committed"
    /\ Cardinality(StreamStmts) >= 3

\* the ask invocation returned without an error
AskSucceeded == call.pc = "returned" /\ call.tool = "ask" /\ call.err = nil

\* C4: a successful ask with max_rows = M > 0 answers at most M rows
C4_AskAtMostMaxRows ==
    (AskSucceeded /\ call.in.MaxRows > 0) => Len(call.out.Rows) <= call.in.MaxRows

\* the rows one response carries, in rows and in pages
ResponseRows == Len(call.out.Rows) + Len(Flatten(call.out.Pages))

\* C5: no response of ask, search or stream carries more rows than Config.MaxRows
C5_AtMostConfigMaxRows ==
    call.pc = "returned" => ResponseRows <= cfg.MaxRows

\* C6: search executes the statement buildSearchSQL made only if guardReadOnly
\* accepts it
C6_SearchGuarded ==
    (call.tool = "search" /\ \E i \in 1..Len(qlog) : qlog[i].stmt = "query") =>
        guardReadOnly(call.sql) = nil

\* a non-dry-run ask whose generated SQL matches the regexp of the guard returned
AskWriteAttemptReturned ==
    /\ call.pc = "returned"
    /\ call.tool = "ask"
    /\ ~call.in.DryRun
    /\ MutatingMatch(call.sql)

\* the connections the call took from the pool for the catalog query of loadSchema
SchemaLoads == Cardinality({ i \in 1..Len(qlog) : qlog[i].stmt = "schema" })

\* C7: a non-dry-run ask whose SQL matches the guard fails with the
\* write-attempt error and audits ask_guard_failed; the executor is not
\* entered (no connection acquired for the statement, no transaction, no
\* statement sent), and the call takes a connection from the pool only for the
\* catalog query of a schema-cache miss
C7_GuardFailNoExecutor ==
    AskWriteAttemptReturned =>
        /\ call.err = ErrWriteAttempt
        /\ audit = <<auditLog("ask_guard_failed", FALSE)>>
        /\ call.exec = "none"
        /\ call.tx = TxNone
        /\ \A i \in 1..Len(qlog) : qlog[i].stmt = "schema"
        /\ call.acquires = SchemaLoads
        /\ SchemaLoads <= 1

\* C7: the guard refused the SQL of an ask that was served from a fresh cache
C7_Witness ==
    /\ AskWriteAttemptReturned
    /\ call.err = ErrWriteAttempt
    /\ call.acquires = 0

\* C7 as stated: such a call acquires no connection from the pool at all
C7_NoConnectionAtAll ==
    AskWriteAttemptReturned =>
        /\ call.err = ErrWriteAttempt
        /\ audit = <<auditLog("ask_guard_failed", FALSE)>>
        /\ call.acquires = 0

\* the classes of failure that ask turns into a structured result
StructuredKinds == {"column_not_found", "relation_not_found", "syntax_error"}

\* the annotation of the note for each class
KindNote(kind) ==
    CASE kind = "column_not_found" -> " (query failed - column not found)"
      [] kind = "relation_not_found" -> " (query failed - table not found)"
      [] kind = "syntax_error" -> " (query failed - syntax error)"

\* the executor of the ask or stream invocation returned an error
ExecutorFailed ==
    /\ call.pc = "returned"
    /\ call.tool \in {"ask", "stream"}
    /\ call.exec = "stream"
    /\ call.execErr # nil

\* C8: an ask whose execution fails with a column-not-found, relation-not-found
\* or syntax error returns no error, exactly one row with the fields error,
\* suggestion and original_sql (the executed SQL), the note of the model
\* annotated with the kind of the failure, and audits ask_query_failed
C8_StructuredResult ==
    (ExecutorFailed /\ call.tool = "ask" /\ call.execErr.kind \in StructuredKinds) =>
        /\ call.err = nil
        /\ Len(call.out.Rows) = 1
        /\ DOMAIN call.out.Rows[1] = {"error", "suggestion", "original_sql"}
        /\ call.out.Rows[1].original_sql = call.sql
        /\ \E i \in StreamStmts : qlog[i].sql = call.sql
        /\ call.out.Note = NoteModel \o <<KindNote(call.execErr.kind)>>
        /\ audit = <<auditLog("ask_query_failed", FALSE)>>

\* C9: an ask or stream whose execution fails with any other error returns an
\* error, and its response carries no rows and no pages
C9_OtherErrorsPropagate ==
    (ExecutorFailed /\ call.execErr.kind \notin StructuredKinds) =>
        /\ call.err # nil
        /\ call.out.Rows = <<>>
        /\ call.out.Pages = <<>>

\* a run of the streaming executor returned its pages
StreamingRunSucceeded ==
    /\ call.pc = "returned"
    /\ call.exec = "stream"
    /\ call.execErr = nil
    /\ call.tx.state = "committed"

StreamSucceeded == call.pc = "returned" /\ call.tool = "stream" /\ call.err = nil

\* the note says more than the name of the model
NoteInforms(note) == note # NoteModel

\* C11: in a successful stream response the rows of the pages add up to
\* total_rows when total_pages is within the page budget; otherwise they add up
\* to at most total_rows and the note tells the caller of the cut
C11_StreamRowSum ==
    StreamSucceeded =>
        LET sum == Len(Flatten(call.out.Pages))
        IN  IF call.out.TotalPages <= call.maxPages
            THEN sum = call.out.TotalRows
            ELSE sum <= call.out.TotalRows /\ NoteInforms(call.out.Note)

\* C12: the COUNT query and the page queries of one call see one snapshot: page
\* i holds the rows that the counted result has at its offset, whatever other
\* sessions commit while the call runs
C12_OneSnapshot ==
    StreamingRunSucceeded =>
        LET P == call.pageSize
        IN  /\ Len(call.pages) = Min(call.maxPages, CeilDiv(call.totalCount, P))
            /\ \A i \in 1..Len(call.pages) :
                  Len(call.pages[i].Rows) = Max(0, Min(P, call.totalCount - (i - 1) * P))

\* the verdict of the gate as the specification words it: a listed keyword as
\* a whole word, or a semicolon in a string that does not end with one
GateRejects(s) ==
    \/ HasListedKeyword(s)
    \/ /\ \E i \in 1..Len(s) : s[i] = ";"
       /\ TrimSpace(s)[Len(TrimSpace(s))] # ";"

\* an ask with dry_run = true returned after its SQL was generated
DryRunReturned ==
    /\ call.pc = "returned"
    /\ call.tool = "ask"
    /\ call.in.DryRun
    /\ call.note # <<>>

\* C13: a dry-run ask never executes its SQL (the executor is not entered: no
\* connection acquired for it, no transaction, no statement), answers the SQL
\* and no rows, and audits exactly one of ask_dry_run_success and
\* ask_dry_run_guard_failed, according to the verdict of the gate
C13_DryRunNoExecution ==
    DryRunReturned =>
        /\ call.exec = "none"
        /\ call.tx = TxNone
        /\ \A i \in 1..Len(qlog) : qlog[i].stmt = "schema"
        /\ call.acquires = SchemaLoads
        /\ call.out.SQL = call.sql
        /\ call.out.Rows = <<>>
        /\ (call.err # nil) = GateRejects(call.sql)
        /\ audit = << IF GateRejects(call.sql)
                      THEN [event |-> "ask_dry_run_guard_failed", success |-> FALSE]
                      ELSE [event |-> "ask_dry_run_success", success |-> TRUE] >>

\* C13: a dry run whose SQL the gate accepted
C13_Witness == DryRunReturned /\ call.err = nil /\ call.out.SQL = SqlSelectUsers

\* C14: no statement that ask or stream hands to the streaming executor
\* triggers the cost heuristic
C14_ExecutorNeverExpensive ==
    \A i \in StreamStmts : ~isExpensiveQuery(qlog[i].sql)

\* a non-dry-run ask returned whose generated SQL passed the guard and
\* triggered the cost heuristic
AskExpensiveReturned ==
    /\ call.pc = "returned"
    /\ call.tool = "ask"
    /\ ~call.in.DryRun
    /\ call.gen # <<>>
    /\ guardReadOnly(call.gen) = nil
    /\ isExpensiveQuery(call.gen)

\* C15: for such an ask the SQL executed and reported is the 'Query too
\* complex' statement, which passes the guard and does not trigger the
\* heuristic; when its execution succeeds the response holds exactly one row
\* and ask_success is audited, and when the executor times out or is
\* cancelled the call returns that error with no rows and audits
\* ask_query_failed
C15_ExpensiveRewritten ==
    AskExpensiveReturned =>
        /\ call.sql = SqlTooComplex
        /\ call.out.SQL = SqlTooComplex
        /\ \A i \in StreamStmts : qlog[i].sql = SqlTooComplex
        /\ guardReadOnly(SqlTooComplex) = nil
        /\ ~isExpensiveQuery(SqlTooComplex)
        /\ call.execErr = nil =>
              /\ call.err = nil
              /\ Len(call.out.Rows) = 1
              /\ audit = <<auditLog("ask_success", TRUE)>>
        /\ (call.execErr # nil /\ call.execErr.kind \in {"timeout", "cancelled"}) =>
              /\ call.err = call.execErr
              /\ call.out.Rows = <<>>
              /\ audit = <<auditLog("ask_query_failed", FALSE)>>

\* C15: the rewritten statement ran and its one row was returned
C15_Witness ==
    /\ AskExpensiveReturned
    /\ call.err = nil
    /\ call.tx.state = "committed"
    /\ Len(call.out.Rows) = 1

\* C15 as stated: every such ask answers one row and audits ask_success
C15_AlwaysOneRow ==
    AskExpensiveReturned =>
        /\ call.sql = SqlTooComplex
        /\ call.out.SQL = SqlTooComplex
        /\ Len(call.out.Rows) = 1
        /\ audit = <<auditLog("ask_success", TRUE)>>

-------------------------------------------------------------------------------
(* Structural check of generated SQL                                          *)

SqlSelectWord == <<"s","e","l","e","c","t">>

SqlSelectSelect == SqlSelectWord \o <<" ">> \o SqlSelectWord

ErrNoSelect == Err("malformed", <<"query", " ", "must", " ", "contain", " ", "SELECT">>)

ErrUnbalanced(openCount, closeCount) ==
    Err("malformed",
        <<"unbalanced", " ", "parentheses:", " ">> \o Itoa(openCount) \o <<" ", "open,", " ">>
        \o Itoa(closeCount) \o <<" ", "close">>)

ErrDuplicateSelect ==
    Err("malformed", <<"duplicate", " ", "SELECT", " ", "keywords", " ", "detected">>)

\* validateSQLBasic
validateSQLBasic(sql) ==
    LET sqlLower   == ToLower(sql)
        openCount  == Count(sql, <<"(">>)
        closeCount == Count(sql, <<")">>)
    IN  IF ~Contains(sqlLower, SqlSelectWord) THEN ErrNoSelect
        ELSE IF openCount # closeCount THEN ErrUnbalanced(openCount, closeCount)
        ELSE IF Contains(sqlLower, SqlSelectSelect) THEN ErrDuplicateSelect
        ELSE nil

\* C16: SQL that the structural check finds malformed (no SELECT token,
\* unbalanced parentheses, or two adjacent SELECT keywords) is rejected by the
\* gate of ask and stream and is never executed
C16_MalformedRejected ==
    (gate.stage = "done" /\ validateSQLBasic(gate.sql) # nil) =>
        gate.err # nil /\ ~gate.ran

-------------------------------------------------------------------------------
(* The bearer middleware of the MCP endpoint                                  *)

MaxCredLen == 2         \* longest credential text a request carries after its scheme

StatusUnauthorized == 401

\* "Bearer "
SchemeBearer == <<"B","e","a","r","e","r"," ">>

\* what stands in front of the credential text in an Authorization header
HeaderSchemes ==
    { <<>>, SchemeBearer, <<"b","e","a","r","e","r"," ">>, <<"B","e","a","r","e","r">>,
      SchemeBearer \o SchemeBearer }

CredAlphabet == {"t", "u", " "}

CredStrings == UNION { [1..n -> CredAlphabet] : n \in 0..MaxCredLen }

\* values of the Authorization header; the empty one is an absent header
AuthHeaders == { sch \o c : sch \in HeaderSchemes, c \in CredStrings }

\* values of AUTH_BEARER in the environment
BearerEnv == { <<>>, <<"t">>, <<" ", "t", " ">>, <<"t", "u">>, <<"t", " ", "u">> }

\* strings.TrimPrefix
TrimPrefix(s, prefix) ==
    IF HasPrefixAt(s, 1, prefix) THEN SubSeq(s, Len(prefix) + 1, Len(s)) ELSE s

\* a middleware test that lets every request through
bearerAny(authorization, bearer) == TRUE

\* the test of the middleware: the header, without "Bearer " in front and
\* without surrounding space, is the configured credential
bearerMatches(authorization, bearer) ==
    LET got == TrimPrefix(authorization, SchemeBearer)
    IN  TrimSpace(got) = bearer

\* the server with the default configuration and no tool invocation
ServerAtRest ==
    /\ cfg = [MaxRows |-> defaultMaxRows, SchemaTTL |-> TTLTicks]
    /\ cache = [txt |-> SchemaNone, expiresAt |-> 0]
    /\ now = 0
    /\ table = 0
    /\ pool = 0
    /\ call = CallIdle
    /\ audit = <<>>
    /\ qlog = <<>>

\* a request arrives at a server started with one value of AUTH_BEARER
AuthInit ==
    /\ gate = GateIdle
    /\ ServerAtRest
    /\ proc = ProcNone
    /\ unit = UnitNone
    /\ req \in [stage : {"new"}, bearer : {TrimSpace(b) : b \in BearerEnv},
                authorization : AuthHeaders, status : {0}, reached : {FALSE}]

\* no credential is configured: the MCP handler is installed bare
ServeOpen ==
    /\ req.stage = "new"
    /\ req.bearer = <<>>
    /\ req' = [req EXCEPT !.stage = "done", !.reached = TRUE]
    /\ UNCHANGED <<gate, proc, unit, srvVars>>

\* the middleware refuses the request
ServeUnauthorized ==
    /\ req.stage = "new"
    /\ req.bearer # <<>>
    /\ ~bearerMatches(req.authorization, req.bearer)
    /\ audit' = Append(audit, auditLog("auth_failed", FALSE))
    /\ req' = [req EXCEPT !.stage = "done", !.status = StatusUnauthorized]
    /\ UNCHANGED <<gate, proc, unit, cfg, cache, now, table, pool, call, qlog>>

\* the middleware hands the request to the MCP handler
ServeAuthorized ==
    /\ req.stage = "new"
    /\ req.bearer # <<>>
    /\ bearerMatches(req.authorization, req.bearer)
    /\ req' = [req EXCEPT !.stage = "done", !.reached = TRUE]
    /\ UNCHANGED <<gate, proc, unit, srvVars>>

AuthNext == ServeOpen \/ ServeUnauthorized \/ ServeAuthorized

SpecAuth == AuthInit /\ [][AuthNext]_vars

\* the credential a header presents: its value without the Bearer scheme and
\* without the space around it
Credential(h) ==
    LET n == Len(SchemeBearer)
        rest == IF Len(h) >= n /\ SubSeq(h, 1, n) = SchemeBearer THEN SubSeq(h, n + 1, Len(h)) ELSE h
        keep == {i \in 1..Len(rest) : rest[i] # " "}
    IN  IF keep = {} THEN <<>>
        ELSE SubSeq(rest, CHOOSE i \in keep : \A j \in keep : i <= j,
                          CHOOSE i \in keep : \A j \in keep : j <= i)

\* a request went through a server that has a credential configured
AuthServed == req.stage = "done" /\ req.bearer # <<>>

\* C17: with a bearer credential configured, a request whose credential
\* differs from it is answered 401, leaves exactly one auth_failed audit
\* record and does not reach the MCP handler; a request that reaches the
\* handler presented the configured credential
C17_BearerGate ==
    AuthServed =>
        /\ Credential(req.authorization) # req.bearer =>
              /\ req.status = StatusUnauthorized
              /\ audit = <<auditLog("auth_failed", FALSE)>>
              /\ ~req.reached
        /\ req.reached =>
              /\ Credential(req.authorization) = req.bearer
              /\ audit = <<>>

\* C17: a request with another credential was refused
C17_Witness ==
    /\ AuthServed
    /\ req.bearer = <<"t">>
    /\ req.authorization = SchemeBearer \o <<"u">>
    /\ req.status = StatusUnauthorized

-------------------------------------------------------------------------------
(* Config.Validate                                                            *)

\* time.Duration, counted here in milliseconds
Second == 1000

Minute == 60 * Second

Hour == 60 * Minute

defaultSchemaTTL == 5 * Minute

defaultQueryTimeout == 25 * Second

maxMaxRows == 10000

\* strings.Join
RECURSIVE Join(_, _)
Join(elems, sep) ==
    IF elems = <<>> THEN <<>>
    ELSE IF Len(elems) = 1 THEN elems[1]
    ELSE elems[1] \o sep \o Join(Tail(elems), sep)

ListSep == <<"\n  - ">>

\* the violations Validate collects, in the order of its tests
ValidateErrs(c) ==
    (IF c.DatabaseURL = <<>> THEN << <<"DATABASE_URL", " is required">> >> ELSE <<>>)
    \o (IF c.MaxRows <= 0 THEN << <<"MAX_ROWS", " must be greater than 0">> >>
        ELSE IF c.MaxRows > maxMaxRows
        THEN << <<"MAX_ROWS", " cannot exceed 10000 (too many rows could cause memory issues)">> >>
        ELSE <<>>)
    \o (IF c.QueryTO < Second THEN << <<"QUERY_TIMEOUT", " must be at least 1 second">> >>
        ELSE IF c.QueryTO > 5 * Minute THEN << <<"QUERY_TIMEOUT", " cannot exceed 5 minutes">> >>
        ELSE <<>>)
    \o (IF c.SchemaTTL < 30 * Second THEN << <<"SCHEMA_TTL", " must be at least 30 seconds">> >>
        ELSE IF c.SchemaTTL > 24 * Hour THEN << <<"SCHEMA_TTL", " cannot exceed 24 hours">> >>
        ELSE <<>>)

ErrConfig(errs) ==
    Err("config", <<"configuration validation failed:">> \o ListSep \o Join(errs, ListSep))

\* a validation that reports the first violation only
ValidateFirst(c) ==
    IF Len(ValidateErrs(c)) > 0 THEN ErrConfig(<<Head(ValidateErrs(c))>>) ELSE nil

\* Config.Validate
Validate(c) ==
    LET errs == ValidateErrs(c)
    IN  IF Len(errs) > 0 THEN ErrConfig(errs) ELSE nil

DatabaseURLs == { <<>>, <<"postgres://localhost/db">> }

\* configurations on and next to every limit
Configs ==
    [DatabaseURL : DatabaseURLs,
     MaxRows     : {-1, 0, 1, defaultMaxRows, maxMaxRows, maxMaxRows + 1},
     QueryTO     : {0, Second - 1, Second, defaultQueryTimeout, 5 * Minute, 5 * Minute + 1},
     SchemaTTL   : {0, 30 * Second - 1, 30 * Second, defaultSchemaTTL, 24 * Hour, 24 * Hour + 1}]

ValidateInit ==
    /\ gate = GateIdle
    /\ ServerAtRest
    /\ req = ReqNone
    /\ proc = ProcNone
    /\ unit \in [fn : {"Validate"}, in : Configs, done : {FALSE}, out : {nil}]

ApplyValidate ==
    /\ unit.fn = "Validate"
    /\ ~unit.done
    /\ unit' = [unit EXCEPT !.done = TRUE, !.out = Validate(unit.in)]
    /\ UNCHANGED <<gate, req, proc, srvVars>>

SpecValidate == ValidateInit /\ [][ApplyValidate]_vars

\* the keys of a configuration that are out of range
OffendingKeys(c) ==
    (IF c.DatabaseURL = <<>> THEN {"DATABASE_URL"} ELSE {})
    \cup (IF c.MaxRows \in 1..10000 THEN {} ELSE {"MAX_ROWS"})
    \cup (IF c.QueryTO >= 1000 /\ c.QueryTO <= 300000 THEN {} ELSE {"QUERY_TIMEOUT"})
    \cup (IF c.SchemaTTL >= 30000 /\ c.SchemaTTL <= 86400000 THEN {} ELSE {"SCHEMA_TTL"})

Validated == unit.fn = "Validate" /\ unit.done

\* C20: Validate succeeds exactly when DatabaseURL is not empty,
\* 1 <= MaxRows <= 10000, 1 s <= QueryTO <= 5 min and 30 s <= SchemaTTL <= 24 h;
\* otherwise its error lists one violation for every offending key
C20_ValidateAllViolations ==
    Validated =>
        LET keys == OffendingKeys(unit.in)
            msg  == unit.out.msg
        IN  /\ (unit.out = nil) <=> (keys = {})
            /\ unit.out # nil =>
                  /\ \A k \in keys : \E i \in 1..Len(msg) : msg[i] = k
                  /\ Cardinality({i \in 1..Len(msg) : msg[i] = ListSep[1]}) = Cardinality(keys)

\* C20: a configuration with every key out of range was refused
C20_Witness ==
    /\ Validated
    /\ Cardinality(OffendingKeys(unit.in)) = 4
    /\ unit.out # nil

-------------------------------------------------------------------------------
(* sanitizeInput on its own                                                   *)

MaxInputLen == 3        \* longest input enumerated in full

InputAlphabet == {"a", " ", "\t", "é"}

InputStrings == UNION { [1..n -> InputAlphabet] : n \in 0..MaxInputLen }

\* strings.Repeat of a one-character string
Repeat(ch, n) == [i \in 1..n |-> ch]

\* the watch-list of sanitizeInput
suspicious ==
    << <<"-","-">>, <<"/","*">>, <<"*","/">>, <<"x","p","_">>, <<"s","p","_">>,
       <<"e","x","e","c">>, <<"e","x","e","c","u","t","e">>, <<"u","n","i","o","n">>,
       <<"i","n","f","o","r","m","a","t","i","o","n","_","s","c","h","e","m","a">>,
       <<"p","g","_","c","a","t","a","l","o","g">> >>

\* the warnings sanitizeInput logs: the watch-list patterns the input holds
SuspiciousIn(input) ==
    LET lowerInput == ToLower(TrimSpace(input))
    IN  {k \in 1..Len(suspicious) : Contains(lowerInput, suspicious[k])}

\* inputs: every short string, one question per watch-list pattern, and
\* inputs on both sides of maxQueryLength in ASCII and in multi-byte characters
SanitizeInputs ==
    InputStrings
    \cup { <<"a", " ">> \o suspicious[k] \o <<" ", "b">> : k \in 1..Len(suspicious) }
    \cup { Repeat("a", n) : n \in {maxQueryLength - 1, maxQueryLength, maxQueryLength + 1} }
    \cup { <<" ">> \o Repeat("a", maxQueryLength) \o <<" ", "\n">>,
           <<"u","n","i","o","n">> \o Repeat("a", maxQueryLength) }
    \cup { Repeat("é", n) : n \in {maxQueryLength \div 2, maxQueryLength \div 2 + 1} }
    \cup { Repeat("日", n) : n \in {maxQueryLength \div 3, maxQueryLength \div 3 + 1} }

SanitizeInit ==
    /\ gate = GateIdle
    /\ ServerAtRest
    /\ req = ReqNone
    /\ proc = ProcNone
    /\ unit \in [fn : {"sanitizeInput"}, in : SanitizeInputs, done : {FALSE}, out : {nil},
                 warned : {{}}]

ApplySanitize ==
    /\ unit.fn = "sanitizeInput"
    /\ ~unit.done
    /\ LET err == sanitizeInput(unit.in)
       IN  unit' = [unit EXCEPT !.done = TRUE, !.out = err,
                                !.warned = IF err = nil THEN SuspiciousIn(unit.in) ELSE {}]
    /\ UNCHANGED <<gate, req, proc, srvVars>>

SpecSanitize == SanitizeInit /\ [][ApplySanitize]_vars

\* s without the white space around it
Trimmed(s) ==
    LET keep == {i \in 1..Len(s) : s[i] \notin {" ", "\t", "\n", "\r"}}
    IN  IF keep = {} THEN <<>>
        ELSE SubSeq(s, CHOOSE i \in keep : \A j \in keep : i <= j,
                       CHOOSE i \in keep : \A j \in keep : j <= i)

Sanitized == unit.fn = "sanitizeInput" /\ unit.done

\* C19: sanitizeInput rejects an input exactly when, with the surrounding
\* white space trimmed, it is empty or longer than 10000 characters; an input
\* that holds a watch-list pattern is not rejected for holding it
C19_RejectsIffEmptyOrLong ==
    Sanitized =>
        LET n == Len(Trimmed(unit.in))
        IN  /\ (unit.out # nil) <=> (n = 0 \/ n > 10000)
            /\ (SuspiciousIn(unit.in) # {} /\ n > 0 /\ n <= 10000) =>
                  unit.out = nil /\ unit.warned = SuspiciousIn(unit.in)

\* the same with the length taken in bytes of the UTF-8 encoding
SanitizeByBytes ==
    Sanitized =>
        LET n == ByteLen(Trimmed(unit.in))
        IN  (unit.out # nil) <=> (n = 0 \/ n > 10000)

-------------------------------------------------------------------------------
(* Shutdown on SIGINT / SIGTERM                                               *)

MaxInFlight == 3        \* tool invocations the server runs at once

TickSeconds == 10       \* seconds that pass in one step of the clock

shutdownTimeout == 30   \* seconds of shutdownCtx

\* the process as main leaves it once the listener is up: the main goroutine
\* in ListenAndServe, the shutdown goroutine waiting on sigChan
ProcServing ==
    [phase |-> "run", listening |-> TRUE, inflight |-> 0, conns |-> 0,
     main |-> "ListenAndServe", sh |-> "sigChan", elapsed |-> 0, db |-> "open",
     exited |-> FALSE]

ShutdownInit ==
    /\ gate = GateIdle
    /\ ServerAtRest
    /\ req = ReqNone
    /\ unit = UnitNone
    /\ proc = ProcServing

ProcRunning == proc.phase = "run" /\ ~proc.exited

\* the listener accepts a request that invokes a tool
Accept ==
    /\ ProcRunning
    /\ proc.listening
    /\ proc.inflight < MaxInFlight
    /\ proc' = [proc EXCEPT !.inflight = @ + 1]
    /\ UNCHANGED <<gate, req, unit, srvVars>>

\* an invocation takes a connection from the pool (an Acquire on a pool that
\* is closing fails, and the invocation ends by FinishPlain)
Checkout ==
    /\ ProcRunning
    /\ proc.db = "open"
    /\ proc.conns < proc.inflight
    /\ proc.conns < MaxConns
    /\ proc' = [proc EXCEPT !.conns = @ + 1]
    /\ UNCHANGED <<gate, req, unit, srvVars>>

\* an invocation that holds no connection returns
FinishPlain ==
    /\ ProcRunning
    /\ proc.inflight > proc.conns
    /\ proc' = [proc EXCEPT !.inflight = @ - 1]
    /\ UNCHANGED <<gate, req, unit, srvVars>>

\* an invocation that holds a connection releases it and returns
FinishQuery ==
    /\ ProcRunning
    /\ proc.conns > 0
    /\ proc' = [proc EXCEPT !.inflight = @ - 1, !.conns = @ - 1]
    /\ UNCHANGED <<gate, req, unit, srvVars>>

\* the signal arrives: the goroutine makes shutdownCtx and calls srv.Shutdown,
\* whose http.Server.Shutdown closes the listener and starts to wait
Signal ==
    /\ ProcRunning
    /\ proc.sh = "sigChan"
    /\ proc' = [proc EXCEPT !.sh = "server.Shutdown", !.listening = FALSE, !.elapsed = 0]
    /\ UNCHANGED <<gate, req, unit, srvVars>>

\* ListenAndServe returns http.ErrServerClosed as soon as Shutdown was called;
\* main falls off its end and the process is over
MainReturn ==
    /\ ProcRunning
    /\ proc.main = "ListenAndServe"
    /\ ~proc.listening
    /\ proc' = [proc EXCEPT !.main = "returned", !.exited = TRUE]
    /\ UNCHANGED <<gate, req, unit, srvVars>>

\* time passes while http.Server.Shutdown waits
Clock ==
    /\ ProcRunning
    /\ proc.sh = "server.Shutdown"
    /\ proc.elapsed < shutdownTimeout
    /\ proc' = [proc EXCEPT !.elapsed = Min(@ + TickSeconds, shutdownTimeout)]
    /\ UNCHANGED <<gate, req, unit, srvVars>>

\* http.Server.Shutdown returns: no request is active, or shutdownCtx is done;
\* db.Close starts and the pool refuses every further Acquire
Drained ==
    /\ ProcRunning
    /\ proc.sh = "server.Shutdown"
    /\ proc.inflight = 0 \/ proc.elapsed >= shutdownTimeout
    /\ proc' = [proc EXCEPT !.sh = "db.Close", !.db = "closing"]
    /\ UNCHANGED <<gate, req, unit, srvVars>>

\* db.Close returns once every connection is back in the pool
PoolClosed ==
    /\ ProcRunning
    /\ proc.sh = "db.Close"
    /\ proc.conns = 0
    /\ proc' = [proc EXCEPT !.sh = "os.Exit", !.db = "closed"]
    /\ UNCHANGED <<gate, req, unit, srvVars>>

\* os.Exit(0)
Exit ==
    /\ ProcRunning
    /\ proc.sh = "os.Exit"
    /\ proc' = [proc EXCEPT !.sh = "done", !.exited = TRUE]
    /\ UNCHANGED <<gate, req, unit, srvVars>>

ShutdownNext ==
    \/ Accept
    \/ Checkout
    \/ FinishPlain
    \/ FinishQuery
    \/ Signal
    \/ MainReturn
    \/ Clock
    \/ Drained
    \/ PoolClosed
    \/ Exit

SpecShutdown == ShutdownInit /\ [][ShutdownNext]_vars

\* the invocations in flight are over, or the 30 s have passed
GraceOver == proc.inflight = 0 \/ proc.elapsed >= 30

\* C18: after the signal no new session is accepted; the process does not
\* exit, and the pool is not closed, before every invocation in flight has
\* finished or 30 s have passed
C18_GracefulShutdown ==
    proc.phase = "run" =>
        /\ proc.sh # "sigChan" => ~proc.listening
        /\ proc.db # "open" => GraceOver
        /\ proc.exited => GraceOver

\* the part that the shutdown goroutine keeps on its own: the pool is not
\* closed before the invocations finished or the 30 s passed
PoolClosedAfterGrace ==
    (proc.phase = "run" /\ proc.db # "open") => GraceOver

-------------------------------------------------------------------------------
(* Properties of the failure paths, the search builder and the schema cache    *)

\* an ask or stream invocation returned the error of the schema load or of
\* the language-model call
UpstreamFailed ==
    /\ call.pc = "returned"
    /\ call.tool \in {"ask", "stream"}
    /\ call.err.kind \in {"introspection", "translation"}

\* C21: an ask or stream invocation that fails on the schema load or on the
\* language-model call returns a tool error and has written one audit record
\* of a failure
C21_UpstreamFailureAudited ==
    UpstreamFailed =>
        /\ call.err # nil
        /\ Len(audit) = 1
        /\ ~audit[1].success

-------------------------------------------------------------------------------
(* buildSearchSQL on its own                                                  *)

MaxNeedleLen == 2       \* longest search term enumerated in full

\* the i-th text column the catalog query enumerates
CatalogCol(i) ==
    [s |-> <<"p","u","b","l","i","c">>, t |-> <<"t">> \o Itoa(i), c |-> <<"c">> \o Itoa(i)]

\* an enumeration of n text columns, in the order of the catalog query
CatalogOf(n) == [i \in 1..n |-> CatalogCol(i)]

\* enumerations: empty, short, and on both sides of searchMaxCols
SearchCatalogs ==
    { CatalogOf(n) : n \in {0, 1, 2, searchMaxCols - 1, searchMaxCols, searchMaxCols + 1} }

NeedleAlphabet == {"a", "'", "%", " "}

\* "x' OR 1=1 --"
NeedleOrTrue == <<"x","'"," ","O","R"," ","1","=","1"," ","-","-">>

\* "'; DROP TABLE users; --"
NeedleDrop ==
    <<"'",";"," ","D","R","O","P"," ","T","A","B","L","E"," ","u","s","e","r","s",";"," ","-","-">>

\* "' UNION ALL SELECT 1 --"
NeedleUnion ==
    <<"'"," ","U","N","I","O","N"," ","A","L","L"," ","S","E","L","E","C","T"," ","1"," ","-","-">>

\* search terms: every short string and three that try to leave the literal
Needles ==
    UNION { [1..n -> NeedleAlphabet] : n \in 1..MaxNeedleLen }
    \cup { NeedleOrTrue, NeedleDrop, NeedleUnion }

\* the bound handleSearch passes: minNonZero(in.Limit, 50)
SearchLimits == { minNonZero(l, searchDefaultLimit) : l \in {0, 1, 7, searchDefaultLimit + 1} }

SearchInit ==
    /\ gate = GateIdle
    /\ ServerAtRest
    /\ req = ReqNone
    /\ proc = ProcNone
    /\ unit \in [fn : {"buildSearchSQL"}, cols : SearchCatalogs, q : Needles,
                 limit : SearchLimits, done : {FALSE}, out : {[err |-> nil, sql |-> <<>>]}]

ApplyBuildSearch ==
    /\ unit.fn = "buildSearchSQL"
    /\ ~unit.done
    /\ unit' = [unit EXCEPT !.done = TRUE, !.out = buildSearchSQL(unit.cols, unit.q, unit.limit)]
    /\ UNCHANGED <<gate, req, proc, srvVars>>

SpecSearch == SearchInit /\ [][ApplyBuildSearch]_vars

SearchBuilt == unit.fn = "buildSearchSQL" /\ unit.done

\* "\nUNION ALL\n"
UnionAllLine == <<"\n","U","N","I","O","N"," ","A","L","L","\n">>

\* FROM "s"."t" WHERE "c" ILIKE: the part of a branch that names its column
BranchFrom(c) ==
    <<"F","R","O","M"," ","\"">> \o c.s \o <<"\"",".","\"">> \o c.t
    \o <<"\""," ","W","H","E","R","E"," ","\"">> \o c.c \o <<"\""," ","I","L","I","K","E"," ","'","%">>

\* the places where sub occurs in s
Occurrences(s, sub) == {i \in 1..Len(s) : HasPrefixAt(s, i, sub)}

\* C22: buildSearchSQL emits one UNION ALL branch for each of the first 60
\* enumerated text columns and for no other, in the order of the enumeration,
\* ends the statement with LIMIT and the caller's bound, and fails with
\* "no searchable columns" exactly when the enumeration is empty
C22_BranchPerColumn ==
    SearchBuilt =>
        LET sql   == unit.out.sql
            n     == Len(unit.cols)
            k     == IF n < 60 THEN n ELSE 60
            seps  == Occurrences(sql, UnionAllLine)
            froms == Occurrences(sql, <<"F","R","O","M"," ","\"">>)
            at(i) == {p \in froms : HasPrefixAt(sql, p, BranchFrom(unit.cols[i]))}
            tail  == <<" ","L","I","M","I","T"," ">> \o Itoa(unit.limit)
        IN  /\ (unit.out.err = ErrNoSearchable) <=> (n = 0)
            /\ n > 0 =>
                  /\ unit.out.err = nil
                  /\ Cardinality(seps) = k - 1
                  /\ Cardinality(froms) = k
                  /\ \A i \in 1..k : Cardinality(at(i)) = 1
                  /\ \A i \in (k + 1)..n : at(i) = {}
                  /\ \A i \in 1..(k - 1) :
                        \E p \in at(i), r \in at(i + 1) :
                            /\ p < r
                            /\ Cardinality({x \in seps : p < x /\ x < r}) = 1
                  /\ Len(sql) > Len(tail)
                  /\ SubSeq(sql, Len(sql) - Len(tail) + 1, Len(sql)) = tail

\* C22: an enumeration of more than 60 columns was built into a statement
C22_Witness ==
    /\ SearchBuilt
    /\ Len(unit.cols) > 60
    /\ unit.out.err = nil
    /\ Cardinality(Occurrences(unit.out.sql, UnionAllLine)) = 59

\* How PostgreSQL reads a statement (standard_conforming_strings on): a
\* string literal runs from a single quote to the next single quote that is
\* not doubled, a quoted identifier from a double quote to the next one.
\* Lex gives the statement with the content of every string literal left out
\* (skel) and the values of the string literals in order (lits). It goes from
\* one quote character to the next: marks are the places of the quote
\* characters, i the place to read on from, mode is "sql", "lit" or "ident",
\* cur the value of the literal being read.
RECURSIVE Lex(_, _, _, _, _, _, _)
Lex(s, marks, i, mode, skel, lits, cur) ==
    LET ahead == {m \in marks : m >= i}
    IN  IF ahead = {} THEN
            [skel |-> IF mode = "lit" THEN skel ELSE skel \o SubSeq(s, i, Len(s)),
             lits |-> lits, open |-> mode # "sql"]
        ELSE
            LET j == CHOOSE m \in ahead : \A x \in ahead : m <= x
            IN  IF mode = "sql" THEN
                    Lex(s, marks, j + 1, IF s[j] = "'" THEN "lit" ELSE "ident",
                        skel \o SubSeq(s, i, j), lits, <<>>)
                ELSE IF mode = "ident" THEN
                    Lex(s, marks, j + 1, IF s[j] = "\"" THEN "sql" ELSE "ident",
                        skel \o SubSeq(s, i, j), lits, cur)
                ELSE IF s[j] = "\"" THEN
                    Lex(s, marks, j + 1, "lit", skel, lits, cur \o SubSeq(s, i, j))
                ELSE IF j < Len(s) /\ s[j + 1] = "'" THEN
                    Lex(s, marks, j + 2, "lit", skel, lits, cur \o SubSeq(s, i, j))
                ELSE
                    Lex(s, marks, j + 1, "sql", Append(skel, "'"),
                        Append(lits, cur \o SubSeq(s, i, j - 1)), <<>>)

LexSql(s) ==
    Lex(s, {m \in 1..Len(s) : s[m] \in {"'", "\""}}, 1, "sql", <<>>, <<>>, <<>>)

\* a search term with nothing in it that could matter to the lexer
NeedlePlain == <<"a">>

\* a statement was built for a short enumeration
SearchBuiltShort == SearchBuilt /\ Len(unit.cols) \in 1..2

\* C23: whatever the search term, the built statement reads as the statement
\* built for a plain term with only the ILIKE literals changed: every literal
\* is closed, the text outside the literals is the same, there are as many
\* literals, and the ILIKE literal of every branch has the value %q%
C23_TermStaysInLiteral ==
    SearchBuiltShort =>
        LET got   == LexSql(unit.out.sql)
            plain == LexSql(buildSearchSQL(unit.cols, NeedlePlain, unit.limit).sql)
        IN  /\ ~got.open
            /\ got.skel = plain.skel
            /\ Len(got.lits) = 3 * Len(unit.cols)
            /\ \A j \in 1..Len(got.lits) :
                  IF j % 3 = 0 THEN got.lits[j] = <<"%">> \o unit.q \o <<"%">>
                  ELSE got.lits[j] = plain.lits[j]

\* C23: a term that tries to close the literal and add a statement was built in
C23_Witness ==
    /\ SearchBuiltShort
    /\ unit.q = NeedleDrop
    /\ Len(unit.cols) = 2
    /\ unit.out.err = nil

-------------------------------------------------------------------------------
(* Identifier quoting: from the catalog to the schema summary to the SQL      *)

\* names of tables in the catalog
TableBook == <<"B","o","o","k">>

TableUsers == <<"u","s","e","r","s">>

TableOrderItem == <<"O","r","d","e","r","I","t","e","m">>

TableNames == {TableBook, TableUsers, TableOrderItem}

\* the regexp ^[a-z_][a-z0-9_]*$ of the catalog query of loadSchema
IsPlainIdent(name) ==
    /\ Len(name) > 0
    /\ name[1] \in Range(LowerLetters) \cup {"_"}
    /\ \A k \in 1..Len(name) : name[k] \in Range(LowerLetters) \cup Range(Digits) \cup {"_"}

\* a rule that quotes the names holding an upper-case letter only
QuoteIfUpper(name) ==
    IF \E k \in 1..Len(name) : name[k] \in UpperSet THEN <<"\"">> \o name \o <<"\"">> ELSE name

\* loadSchema: CASE WHEN name ~ '^[a-z_][a-z0-9_]*$' THEN name ELSE '"' || name || '"' END
SchemaIdent(name) == IF IsPlainIdent(name) THEN name ELSE <<"\"">> \o name \o <<"\"">>

\* loadSchema: the line of one table (with one column) and its line feed
SchemaLine(t) ==
    <<"T","A","B","L","E"," ","p","u","b","l","i","c",".">> \o SchemaIdent(t)
    \o <<"(","i","d"," ","i","n","t","e","g","e","r",")","\n">>

\* loadSchema: the summary of the tables of a catalog, ORDER BY 1
SchemaSummary(tables) ==
    (IF TableBook \in tables THEN SchemaLine(TableBook) ELSE <<>>)
    \o (IF TableOrderItem \in tables THEN SchemaLine(TableOrderItem) ELSE <<>>)
    \o (IF TableUsers \in tables THEN SchemaLine(TableUsers) ELSE <<>>)

\* the SQL the language model may answer with: a table named as the summary
\* shows it, without its quotes, in lower case, or in lower case within quotes
LlmAnswers ==
    LET refs == UNION { { SchemaIdent(t), t, ToLower(t), <<"\"">> \o ToLower(t) \o <<"\"">> } :
                        t \in TableNames }
        sqls == { <<"S","E","L","E","C","T"," ","*"," ","F","R","O","M"," ">> \o r : r \in refs }
    IN  sqls \cup { <<BackQuote, BackQuote, BackQuote, "s","q","l","\n">> \o s
                    \o <<"\n", BackQuote, BackQuote, BackQuote>> : s \in sqls }

QuotingInit ==
    /\ gate = GateIdle
    /\ ServerAtRest
    /\ req = ReqNone
    /\ proc = ProcNone
    /\ unit \in [fn : {"ask"}, tables : SUBSET TableNames, answer : LlmAnswers,
                 done : {FALSE}, schema : {<<>>}, sql : {<<>>}, ran : {FALSE}]

\* handleAsk from the schema summary to the executor: the summary goes into the
\* prompt, the answer of the language model is trimmed, guarded and rewritten
\* when expensive, and handed to runStreamingQuery
AskTranslate ==
    /\ unit.fn = "ask"
    /\ ~unit.done
    /\ LET a == AskAdmit(generateSQL(unit.answer))
       IN  unit' = [unit EXCEPT !.done = TRUE, !.schema = SchemaSummary(unit.tables),
                                !.sql = a.sql, !.ran = a.ran]
    /\ UNCHANGED <<gate, req, proc, srvVars>>

SpecQuoting == QuotingInit /\ [][AskTranslate]_vars

\* the names the summary shows within double quotes
QuotedInSummary(schema) ==
    {x \in TableNames : Contains(schema, <<"\"">> \o x \o <<"\"">>)}

\* the places where sql names x as a whole word, in any case
ReferencesTo(sql, x) ==
    {i \in 1..Len(sql) :
        /\ HasPrefixFoldAt(sql, i, ToLower(x))
        /\ (i = 1 \/ ~IsWordCh(sql[i - 1]))
        /\ (i + Len(x) > Len(sql) \/ ~IsWordCh(sql[i + Len(x)]))}

\* sql names x at place i just as the summary does: same letters, in quotes
SameQuoting(sql, x, i) ==
    /\ SubSeq(sql, i, i + Len(x) - 1) = x
    /\ i > 1 /\ sql[i - 1] = "\""
    /\ i + Len(x) <= Len(sql) /\ sql[i + Len(x)] = "\""

\* C24: SQL that ask executes names every identifier that the schema summary
\* shows in quotes with the same quoting
C24_QuotingPreserved ==
    (unit.fn = "ask" /\ unit.done /\ unit.ran) =>
        \A x \in QuotedInSummary(unit.schema) :
            \A i \in ReferencesTo(unit.sql, x) : SameQuoting(unit.sql, x, i)

-------------------------------------------------------------------------------
(* SchemaCache.Get under concurrency                                          *)

NumCallers == 2         \* goroutines that call SchemaCache.Get

MaxCalls == 2           \* calls each of them makes

CacheTTL == 2           \* c.ttl, in ticks

MaxCacheTime == 3       \* the clock stops here

Callers == 1..NumCallers

SchemaItems == [body |-> "TABLE public.items(id integer PRIMARY KEY)\n", len |-> 43]

\* what loadSchema may return: the summary of the catalog as it is at the
\* time (tables may have been added, or there may be none), or an error
CacheLoadResults ==
    LoadSchemaResults
    \cup { [err |-> nil, txt |-> SchemaItems], [err |-> nil, txt |-> SchemaNone] }

\* what a call of Get returned
GetNothing == [txt |-> SchemaNone, err |-> nil]

\* a caller that is not in Get; the fields from cold on record, for the call
\* in progress: whether the entry was missing or expired when it began,
\* whether a load had succeeded before it began, the summary of that load and
\* the time up to which it is valid (0: none), whether the call issued a
\* catalog query, the refreshes that ran while it was in progress, and the
\* time when it returned
CallerIdle ==
    [pc |-> "idle", ret |-> GetNothing, calls |-> 0, cold |-> FALSE, afterLoad |-> FALSE,
     expect |-> SchemaNone, validTo |-> 0, queried |-> FALSE, overlap |-> {}, endedAt |-> 0]

\* the cache with its RWMutex: writer is the caller that holds Lock (0: none);
\* loads counts the catalog queries issued; okTxt and okTo are the summary of
\* the last load that succeeded and the time up to which it is valid
ProcCache ==
    [phase |-> "cache", writer |-> 0, g |-> [c \in Callers |-> CallerIdle],
     loads |-> 0, loaded |-> FALSE, okTxt |-> SchemaNone, okTo |-> 0]

CacheInit ==
    /\ gate = GateIdle
    /\ req = ReqNone
    /\ unit = UnitNone
    /\ proc = ProcCache
    /\ cfg = [MaxRows |-> defaultMaxRows, SchemaTTL |-> CacheTTL]
    /\ cache = [txt |-> SchemaNone, expiresAt |-> 0]
    /\ now = 0
    /\ table = 0
    /\ pool = 0
    /\ call = CallIdle
    /\ audit = <<>>
    /\ qlog = <<>>

\* the refresh in progress, 0 when none
LoadRunning == IF \E c \in Callers : proc.g[c].pc = "load" THEN proc.loads ELSE 0

\* a goroutine calls Get and comes to c.mu.RLock()
GetCall(c) ==
    /\ proc.phase = "cache"
    /\ proc.g[c].pc = "idle"
    /\ proc.g[c].calls < MaxCalls
    /\ proc' = [proc EXCEPT !.g[c] =
                  [CallerIdle EXCEPT !.pc = "RLock", !.calls = proc.g[c].calls + 1,
                                     !.cold = ~CacheFresh,
                                     !.afterLoad = proc.loaded,
                                     !.expect = proc.okTxt,
                                     !.validTo = IF proc.loaded THEN proc.okTo ELSE 0,
                                     !.overlap = {LoadRunning} \ {0}]]
    /\ UNCHANGED <<gate, req, unit, srvVars>>

\* lines 98-103: under the read lock, a fresh entry is returned; otherwise the
\* read lock is given up and the goroutine comes to c.mu.Lock()
GetRead(c) ==
    /\ proc.phase = "cache"
    /\ proc.g[c].pc = "RLock"
    /\ proc.writer = 0
    /\ IF CacheFresh
       THEN proc' = [proc EXCEPT !.g[c].pc = "returned",
                                 !.g[c].ret = [txt |-> cache.txt, err |-> nil],
                                 !.g[c].endedAt = now]
       ELSE proc' = [proc EXCEPT !.g[c].pc = "Lock"]
    /\ UNCHANGED <<gate, req, unit, srvVars>>

\* lines 105-109: with the write lock, a fresh entry is returned; otherwise
\* loadSchema sends the catalog query
GetLock(c) ==
    /\ proc.phase = "cache"
    /\ proc.g[c].pc = "Lock"
    /\ proc.writer = 0
    /\ IF CacheFresh
       THEN /\ proc' = [proc EXCEPT !.g[c].pc = "returned",
                                    !.g[c].ret = [txt |-> cache.txt, err |-> nil],
                                    !.g[c].endedAt = now]
            /\ UNCHANGED qlog
       ELSE /\ proc' = [proc EXCEPT
                          !.writer = c,
                          !.loads = proc.loads + 1,
                          !.g = [d \in Callers |->
                                   IF d = c
                                   THEN [proc.g[d] EXCEPT !.pc = "load", !.queried = TRUE,
                                                          !.overlap = @ \cup {proc.loads + 1}]
                                   ELSE IF proc.g[d].pc \in {"RLock", "Lock"}
                                   THEN [proc.g[d] EXCEPT !.overlap = @ \cup {proc.loads + 1}]
                                   ELSE proc.g[d]]]
            /\ qlog' = Append(qlog, PoolStmt("schema", <<>>))
    /\ UNCHANGED <<gate, req, unit, cfg, cache, now, table, pool, call, audit>>

\* a refresh that drops the entry when the load fails
EntryDroppedOnError(r) ==
    IF r.err # nil THEN [txt |-> SchemaNone, expiresAt |-> 0]
    ELSE [txt |-> TruncateSchema(r.txt), expiresAt |-> now + cfg.SchemaTTL]

\* lines 110-118: c.txt and c.expiresAt after loadSchema returned r; the early
\* return on an error assigns neither
EntryAfterLoad(r) ==
    IF r.err # nil THEN cache
    ELSE [txt |-> TruncateSchema(r.txt), expiresAt |-> now + cfg.SchemaTTL]

\* lines 110-119: loadSchema returns; an error is returned with an empty
\* summary, a summary is cut, stored with its expiry and returned; the write
\* lock is given up
GetLoad(c) ==
    /\ proc.phase = "cache"
    /\ proc.g[c].pc = "load"
    /\ \E r \in CacheLoadResults :
          IF r.err # nil
          THEN /\ proc' = [proc EXCEPT !.writer = 0, !.g[c].pc = "returned",
                                       !.g[c].ret = [txt |-> SchemaNone, err |-> r.err],
                                       !.g[c].endedAt = now]
               /\ cache' = EntryAfterLoad(r)
          ELSE /\ cache' = EntryAfterLoad(r)
               /\ proc' = [proc EXCEPT !.writer = 0, !.g[c].pc = "returned",
                                       !.g[c].ret = [txt |-> TruncateSchema(r.txt), err |-> nil],
                                       !.g[c].endedAt = now,
                                       !.loaded = TRUE,
                                       !.okTxt = TruncateSchema(r.txt),
                                       !.okTo = now + cfg.SchemaTTL]
    /\ UNCHANGED <<gate, req, unit, cfg, now, table, pool, call, audit, qlog>>

\* the caller takes the result and may call again
GetDone(c) ==
    /\ proc.phase = "cache"
    /\ proc.g[c].pc = "returned"
    /\ proc.g[c].calls < MaxCalls
    /\ proc' = [proc EXCEPT !.g[c].pc = "idle"]
    /\ UNCHANGED <<gate, req, unit, srvVars>>

\* time passes
CacheTick ==
    /\ proc.phase = "cache"
    /\ now < MaxCacheTime
    /\ now' = now + 1
    /\ UNCHANGED <<gate, req, proc, unit, cfg, cache, table, pool, call, audit, qlog>>

CacheNext ==
    \/ \E c \in Callers : GetCall(c)
    \/ \E c \in Callers : GetRead(c)
    \/ \E c \in Callers : GetLock(c)
    \/ \E c \in Callers : GetLoad(c)
    \/ \E c \in Callers : GetDone(c)
    \/ CacheTick

SpecCache == CacheInit /\ [][CacheNext]_vars

GetReturned(c) == proc.phase = "cache" /\ proc.g[c].pc = "returned"

\* at most one caller is loading, and it is the one that holds the write lock
CacheOneRefresher ==
    proc.phase = "cache" =>
        /\ Cardinality({c \in Callers : proc.g[c].pc = "load"}) <= 1
        /\ \A c \in Callers : proc.g[c].pc = "load" <=> proc.writer = c

\* every caller made one call, begun while the entry was missing or expired,
\* and all of them have returned
AllColdReturned ==
    \A c \in Callers : GetReturned(c) /\ proc.g[c].calls = 1 /\ proc.g[c].cold

\* C25: when all callers call Get while the entry is missing or expired, one
\* catalog query is issued, no two of them load at a time, and all of them
\* return the summary that was stored
C25_OneCatalogQuery ==
    /\ CacheOneRefresher
    /\ AllColdReturned =>
          /\ proc.loads = 1
          /\ Len(qlog) = 1
          /\ \A c \in Callers : proc.g[c].ret = [txt |-> cache.txt, err |-> nil]

\* C26: of the calls that were in progress during one refresh, either all
\* return a summary or all return an error
C26_AllOrNothing ==
    proc.phase = "cache" =>
        \A k \in 1..proc.loads :
            LET over == {c \in Callers : GetReturned(c) /\ k \in proc.g[c].overlap}
            IN  \/ \A c \in over : proc.g[c].ret.err = nil
                \/ \A c \in over : proc.g[c].ret.err # nil

\* C27: a call of Get begun after some load succeeded does not return the
\* empty string as its summary
C27_NeverEmptyAfterLoad ==
    \A c \in Callers :
        (GetReturned(c) /\ proc.g[c].afterLoad) => proc.g[c].ret.txt # SchemaNone

\* C28: a call of Get that begins after a load succeeded and returns before
\* that load's summary expires issues no catalog query and returns that summary
C28_WarmNoCatalogQuery ==
    \A c \in Callers :
        (GetReturned(c) /\ proc.g[c].afterLoad /\ proc.g[c].endedAt < proc.g[c].validTo) =>
            /\ ~proc.g[c].queried
            /\ proc.g[c].ret = [txt |-> proc.g[c].expect, err |-> nil]

\* what does hold of a warm cache: as C28, for a stored summary that is not empty
WarmSummaryServed ==
    \A c \in Callers :
        (/\ GetReturned(c) /\ proc.g[c].afterLoad /\ proc.g[c].endedAt < proc.g[c].validTo
         /\ proc.g[c].expect # SchemaNone) =>
            /\ ~proc.g[c].queried
            /\ proc.g[c].ret = [txt |-> proc.g[c].expect, err |-> nil]

\* what does hold of concurrent cold calls: when no load fails or brings an
\* empty summary, and the entry stays valid, there is one catalog query only
ColdCallsShareLoad ==
    (/\ AllColdReturned
     /\ \A c \in Callers : proc.g[c].queried =>
                              proc.g[c].ret.err = nil /\ proc.g[c].ret.txt # SchemaNone
     /\ now < CacheTTL) =>
        /\ proc.loads = 1
        /\ \A c \in Callers : proc.g[c].ret = [txt |-> cache.txt, err |-> nil]

-------------------------------------------------------------------------------
(* Properties of connections and locks                                        *)

\* the invocation went into an executor (Acquire was called)
ExecutorEntered == call.exec # "none" /\ call.pc = "returned"

\* C29: when an invocation has returned, whatever the exit path of its
\* executor, no connection is checked out and no transaction is open: the
\* transaction is committed when the executor succeeded and rolled back when
\* it failed after BeginTx; never are more than 8 connections checked out
C29_ReleasedOnEveryExit ==
    /\ pool >= 0
    /\ pool <= 8
    /\ call.pc \in {"idle", "returned"} =>
          /\ pool = 0
          /\ call.conn = 0
          /\ call.tx.state \in {"none", "committed", "rolled back"}
    /\ ExecutorEntered =>
          /\ call.execErr = nil <=> call.tx.state = "committed"
          /\ call.tx.state = "none" => call.tx.id = 0

\* C29: an executor left on a timeout after its transaction had begun
C29_Witness ==
    /\ ExecutorEntered
    /\ call.execErr # nil
    /\ call.execErr.kind = "timeout"
    /\ call.tx.state = "rolled back"
    /\ pool = 0

-------------------------------------------------------------------------------
(* Concurrent invocations sharing the schema cache lock and the pool          *)

\* invocations followed step by step; the other sessions are counted
NumInvocations == 3
Invocations == 1 .. NumInvocations
PoolTools == {"ask", "search", "stream"}

\* an invocation: its tool, its position and the connections it holds
InvocationIdle == [tool |-> "none", pc |-> "idle", holds |-> 0]

\* writer: the invocation holding c.mu.Lock(), 0 when none; fresh: the cache
\* entry is non-empty and not expired; others: connections checked out by
\* invocations that are inside an executor and not followed step by step
ProcPool ==
    [phase |-> "pool", writer |-> 0, fresh |-> FALSE, others |-> 0,
     inv |-> [i \in Invocations |-> InvocationIdle]]

PoolInit ==
    /\ gate = GateIdle
    /\ ServerAtRest
    /\ req = ReqNone
    /\ unit = UnitNone
    /\ proc = ProcPool

\* connections held once rows.Close() of a catalog query has run
HeldKept(h) == h
HeldAfterClose(h) == h - 1

\* positions where an invocation is blocked in pgxpool's Acquire
WaitsForConn(i) == proc.inv[i].pc \in {"loadAcquire", "catalogAcquire", "acquire"}

\* the handler is entered; ask and stream come to cache.Get, search to
\* buildSearchSQL (sanitizeInput may reject the input first)
Invoke(i) ==
    /\ proc.phase = "pool"
    /\ proc.inv[i].pc = "idle"
    /\ \E t \in PoolTools, ok \in BOOLEAN :
          proc' = [proc EXCEPT !.inv[i] =
                     [tool |-> t,
                      pc |-> IF ~ok THEN "returned"
                             ELSE IF t = "search" THEN "catalogAcquire" ELSE "RLock",
                      holds |-> 0]]
    /\ UNCHANGED <<gate, req, unit, srvVars>>

\* Get, lines 98-103: the read lock is taken when no writer holds the lock;
\* a fresh entry is returned, otherwise the goroutine comes to c.mu.Lock()
PoolGetRead(i) ==
    /\ proc.phase = "pool"
    /\ proc.inv[i].pc = "RLock"
    /\ proc.writer = 0
    /\ proc' = [proc EXCEPT !.inv[i].pc = IF proc.fresh THEN "llm" ELSE "Lock"]
    /\ UNCHANGED <<gate, req, unit, srvVars>>

\* Get, lines 105-110: the write lock is taken; a fresh entry is returned and
\* the lock given up, otherwise loadSchema starts under the lock
PoolGetLock(i) ==
    /\ proc.phase = "pool"
    /\ proc.inv[i].pc = "Lock"
    /\ proc.writer = 0
    /\ proc' = IF proc.fresh THEN [proc EXCEPT !.inv[i].pc = "llm"]
               ELSE [proc EXCEPT !.writer = i, !.inv[i].pc = "loadAcquire"]
    /\ UNCHANGED <<gate, req, unit, srvVars>>

\* db.Query of loadSchema (line 190), buildSearchSQL (line 985) or Acquire of
\* an executor gets a connection when fewer than MaxConns are checked out
ConnGranted(i) ==
    /\ proc.phase = "pool"
    /\ WaitsForConn(i)
    /\ pool < MaxConns
    /\ pool' = pool + 1
    /\ proc' = [proc EXCEPT !.inv[i].holds = @ + 1,
                            !.inv[i].pc = IF proc.inv[i].pc = "loadAcquire" THEN "load"
                                          ELSE IF proc.inv[i].pc = "catalogAcquire" THEN "catalog"
                                          ELSE "exec"]
    /\ UNCHANGED <<gate, req, unit, cfg, cache, now, table, call, audit, qlog>>

\* the context of the waiting call expires (15 s, 10 s or QueryTO): loadSchema
\* fails and Get unlocks, the handler of ask or stream goes on to the
\* translation; buildSearchSQL and the executors make their handler return
ConnTimeout(i) ==
    /\ proc.phase = "pool"
    /\ WaitsForConn(i)
    /\ proc' = IF proc.inv[i].pc = "loadAcquire"
               THEN [proc EXCEPT !.writer = 0, !.inv[i].pc = "llm"]
               ELSE [proc EXCEPT !.inv[i].pc = "returned"]
    /\ UNCHANGED <<gate, req, unit, srvVars>>

\* loadSchema ends (rows closed, lines 191-205) and Get returns, lines 111-119:
\* the entry is stored when the load succeeded, the deferred Unlock runs
LoadDone(i) ==
    /\ proc.phase = "pool"
    /\ proc.inv[i].pc = "load"
    /\ \E ok \in BOOLEAN :
          proc' = [proc EXCEPT !.writer = 0,
                               !.fresh = IF ok THEN TRUE ELSE @,
                               !.inv[i].holds = HeldAfterClose(@),
                               !.inv[i].pc = "llm"]
    /\ pool' = pool - 1
    /\ UNCHANGED <<gate, req, unit, cfg, cache, now, table, call, audit, qlog>>

\* generateSQL returns or times out (18 s); on an error, a rejected statement
\* or a dry run the handler returns, otherwise it enters its executor
LlmDone(i) ==
    /\ proc.phase = "pool"
    /\ proc.inv[i].pc = "llm"
    /\ \E ok \in BOOLEAN :
          proc' = [proc EXCEPT !.inv[i].pc = IF ok THEN "acquire" ELSE "returned"]
    /\ UNCHANGED <<gate, req, unit, srvVars>>

\* buildSearchSQL returns, lines 986-1015: the deferred rows.Close() gives the
\* connection back before handleSearch calls runReadOnlyQuery
CatalogDone(i) ==
    /\ proc.phase = "pool"
    /\ proc.inv[i].pc = "catalog"
    /\ \E ok \in BOOLEAN :
          proc' = [proc EXCEPT !.inv[i].holds = HeldAfterClose(@),
                               !.inv[i].pc = IF ok THEN "acquire" ELSE "returned"]
    /\ pool' = pool - (proc.inv[i].holds - HeldAfterClose(proc.inv[i].holds))
    /\ UNCHANGED <<gate, req, unit, cfg, cache, now, table, call, audit, qlog>>

\* the executor returns, with or without an error: the deferred Release runs
ExecDone(i) ==
    /\ proc.phase = "pool"
    /\ proc.inv[i].pc = "exec"
    /\ proc' = [proc EXCEPT !.inv[i].holds = 0, !.inv[i].pc = "returned"]
    /\ pool' = pool - proc.inv[i].holds
    /\ UNCHANGED <<gate, req, unit, cfg, cache, now, table, call, audit, qlog>>

\* another invocation enters its executor and checks a connection out
OtherAcquire ==
    /\ proc.phase = "pool"
    /\ pool < MaxConns
    /\ pool' = pool + 1
    /\ proc' = [proc EXCEPT !.others = @ + 1]
    /\ UNCHANGED <<gate, req, unit, cfg, cache, now, table, call, audit, qlog>>

\* the executor of another invocation returns and releases its connection
OtherRelease ==
    /\ proc.phase = "pool"
    /\ proc.others > 0
    /\ pool' = pool - 1
    /\ proc' = [proc EXCEPT !.others = @ - 1]
    /\ UNCHANGED <<gate, req, unit, cfg, cache, now, table, call, audit, qlog>>

\* time passes the expiry of the cache entry
PoolExpire ==
    /\ proc.phase = "pool"
    /\ proc.fresh
    /\ proc' = [proc EXCEPT !.fresh = FALSE]
    /\ UNCHANGED <<gate, req, unit, srvVars>>

\* the steps of invocation i
InvocationStep(i) ==
    \/ Invoke(i)
    \/ PoolGetRead(i)
    \/ PoolGetLock(i)
    \/ ConnGranted(i)
    \/ ConnTimeout(i)
    \/ LoadDone(i)
    \/ LlmDone(i)
    \/ CatalogDone(i)
    \/ ExecDone(i)

PoolNext ==
    \/ \E i \in Invocations : InvocationStep(i)
    \/ OtherAcquire
    \/ OtherRelease
    \/ PoolExpire

SpecPool == PoolInit /\ [][PoolNext]_vars

\* every goroutine is scheduled again and again, and every database and
\* language-model call it waits for returns or times out
SpecPoolFair ==
    /\ SpecPool
    /\ \A i \in Invocations : WF_vars(InvocationStep(i))
    /\ WF_vars(OtherRelease)

RECURSIVE HeldUpTo(_)
HeldUpTo(n) == IF n = 0 THEN 0 ELSE proc.inv[n].holds + HeldUpTo(n - 1)
InvocationsHeld == HeldUpTo(NumInvocations)

\* the checked-out connections are those of the invocations, never above 8
PoolWithinMax ==
    proc.phase = "pool" =>
        /\ pool = proc.others + InvocationsHeld
        /\ pool <= 8

\* no invocation is blocked in Acquire while it holds a connection, and none
\* holds two
NoHoldAndWait ==
    proc.phase = "pool" =>
        \A i \in Invocations :
            /\ WaitsForConn(i) => proc.inv[i].holds = 0
            /\ proc.inv[i].holds <= 1
            /\ proc.inv[i].pc \in {"RLock", "Lock"} => proc.inv[i].holds = 0

Invoked(i) == proc.phase = "pool" /\ proc.inv[i].pc # "idle"
InvocationReturned(i) == proc.phase = "pool" /\ proc.inv[i].pc = "returned"

\* C30: no invocation waits for a pool connection, or for the cache lock,
\* while it holds a connection, and every invocation that was entered
\* eventually returns
C30_NoDeadlock ==
    /\ []NoHoldAndWait
    /\ \A i \in Invocations : Invoked(i) ~> InvocationReturned(i)

\* C30: the pool is exhausted while one invocation holds the cache lock and
\* waits for a connection, a second waits in its executor's Acquire, and a
\* third has returned
C30_Witness ==
    /\ proc.phase = "pool"
    /\ pool = MaxConns
    /\ \E i, j, k \in Invocations :
          /\ proc.writer = i
          /\ proc.inv[i].pc = "loadAcquire"
          /\ proc.inv[j].pc = "acquire"
          /\ proc.inv[k].pc = "returned"
          /\ proc.inv[k].tool = "search"

-------------------------------------------------------------------------------
(* Frame of a failed refresh                                                   *)

\* caller c leaves loadSchema in this step with an error
RefreshFails(c) ==
    /\ proc.g[c].pc = "load"
    /\ proc'.g[c].pc = "returned"
    /\ proc'.g[c].ret.err # nil

\* C31: a Get whose refresh fails leaves the stored summary and expiresAt as
\* they were and returns the error with an empty summary
C31_FailedRefreshKeepsEntry ==
    [][\A c \in Callers :
          RefreshFails(c) =>
              /\ cache'.txt = cache.txt
              /\ cache'.expiresAt = cache.expiresAt
              /\ proc'.g[c].ret.txt = SchemaNone]_vars

\* C31: a refresh failed after an earlier load had stored a summary, which is
\* still in the cache with its expiry
C31_Witness ==
    /\ proc.phase = "cache"
    /\ \E c \in Callers :
          /\ proc.g[c].pc = "returned"
          /\ proc.g[c].queried
          /\ proc.g[c].afterLoad
          /\ proc.g[c].ret.err # nil
          /\ proc.g[c].ret.txt = SchemaNone
    /\ cache.txt.len # 0
    /\ cache.txt = proc.okTxt
    /\ cache.expiresAt = proc.okTo
    /\ cache.expiresAt <= now

-------------------------------------------------------------------------------
(* Page size and page budget of ask and stream                                *)

\* max_rows, page_size and max_pages as callers may pass them: any int
MaxRowsArgs ==
    {0 - 1, 0, 1, 2, 3, pageSize - 1, pageSize, pageSize + 1, 2 * pageSize + 1,
     MaxInt - pageSize, MaxInt - pageSize + 1, MaxInt - pageSize + 2, MaxInt}

PageSizeArgs == {0 - 1, 0, 1, 2, pageSize - 1, pageSize, pageSize + 1, MaxInt}

MaxPagesArgs == {0 - 1, 0, 1, maxPagesAuto - 1, maxPagesAuto, maxPagesAuto + 1, MaxInt}

PagingArgs ==
    { [InNone EXCEPT !.MaxRows = mr, !.PageSize = ps] : mr \in MaxRowsArgs, ps \in PageSizeArgs }
    \cup { [InNone EXCEPT !.MaxPages = mp, !.PageSize = ps] : mp \in MaxPagesArgs, ps \in PageSizeArgs }

PagingInit ==
    /\ gate = GateIdle
    /\ ServerAtRest
    /\ req = ReqNone
    /\ proc = ProcNone
    /\ unit \in [fn : {"paging"}, tool : {"none"}, in : PagingArgs, done : {FALSE},
                 pageSize : {0}, maxPages : {0}]

\* handleAsk, lines 521-524 and 565-568: the arguments of runStreamingQuery
ApplyAskPaging ==
    /\ unit.fn = "paging"
    /\ ~unit.done
    /\ unit.in.MaxPages = 0
    /\ LET ps == AskPageSize(unit.in)
       IN  unit' = [unit EXCEPT !.done = TRUE, !.tool = "ask", !.pageSize = ps,
                                !.maxPages = AskMaxPages(unit.in, ps)]
    /\ UNCHANGED <<gate, req, proc, srvVars>>

\* handleStream, lines 715-716: the arguments of runStreamingQuery
ApplyStreamPaging ==
    /\ unit.fn = "paging"
    /\ ~unit.done
    /\ unit.in.MaxRows = 0
    /\ unit' = [unit EXCEPT !.done = TRUE, !.tool = "stream",
                            !.pageSize = StreamPageSize(unit.in),
                            !.maxPages = StreamMaxPages(unit.in)]
    /\ UNCHANGED <<gate, req, proc, srvVars>>

PagingNext == ApplyAskPaging \/ ApplyStreamPaging

SpecPaging == PagingInit /\ [][PagingNext]_vars

\* v clamped to [1, max], max when v <= 0
Clamped(v, max) == IF v <= 0 THEN max ELSE Min(v, max)

\* the page size documented for ask
AskPageSizeStated(in) ==
    LET ps == Clamped(in.PageSize, 50)
    IN  IF 0 < in.MaxRows /\ in.MaxRows < ps THEN in.MaxRows ELSE ps

\* the arguments are the documented ones
PagingAsStated ==
    /\ unit.tool = "ask" =>
          /\ unit.pageSize = AskPageSizeStated(unit.in)
          /\ unit.maxPages = IF unit.in.MaxRows <= 0 THEN 20
                             ELSE CeilExact(unit.in.MaxRows, unit.pageSize)
    /\ unit.tool = "stream" =>
          /\ unit.maxPages = Clamped(unit.in.MaxPages, 10)
          /\ unit.pageSize = Clamped(unit.in.PageSize, 50)
    /\ unit.pageSize >= 1
    /\ unit.maxPages >= 1

PagingDone == unit.fn = "paging" /\ unit.done

\* C32: ask and stream call the executor with the page size and the page
\* budget documented, both at least 1
C32_PagingArguments == PagingDone => PagingAsStated

\* the same for every max_rows that leaves max_rows + pageSize - 1 in range
PagingInRange ==
    (PagingDone /\ unit.in.MaxRows <= MaxInt - pageSize + 1) => PagingAsStated

\* ask was called with the largest max_rows and hands a page budget below 1
\* to the executor
PagingOverflows ==
    /\ PagingDone
    /\ unit.tool = "ask"
    /\ unit.in.MaxRows = MaxInt
    /\ unit.maxPages < 1

-------------------------------------------------------------------------------
(* runPaginatedQuery                                                           *)

\* page numbers and page sizes a caller of runPaginatedQuery may pass; the
\* last page number times the page size 4 leaves the range of an int
PaginatedPages == {0, 1, 2, (MaxInt + 1) \div 2}
PaginatedSizes == {1, 2, 3, 4}

PaginatedNone ==
    [Rows |-> <<>>, Page |-> 0, PageSize |-> 0, TotalCount |-> 0, HasMore |-> FALSE,
     NextPage |-> 0]

\* one call of runPaginatedQuery(SqlSelectUsers, page, pageSize) on a relation
\* of `table` rows; wrote: another session committed between the statements
PaginatedInit ==
    /\ gate = GateIdle
    /\ req = ReqNone
    /\ proc = ProcNone
    /\ cfg = [MaxRows |-> defaultMaxRows, SchemaTTL |-> TTLTicks]
    /\ cache = [txt |-> SchemaNone, expiresAt |-> 0]
    /\ now = 0
    /\ table \in 0..MaxTableRows
    /\ pool = 0
    /\ call = CallIdle
    /\ audit = <<>>
    /\ qlog = <<>>
    /\ unit \in [fn : {"runPaginatedQuery"}, page : PaginatedPages, pageSize : PaginatedSizes,
                 pc : {"count"}, totalCount : {0}, wrote : {FALSE}, err : {nil},
                 out : {PaginatedNone}]

\* lines 879-893: hasMore, nextPage and the result
PaginatedResult(page, ps, offset, totalCount, rows) ==
    LET hasMore == offset + Len(rows) < totalCount
    IN  [Rows |-> rows, Page |-> page, PageSize |-> ps, TotalCount |-> totalCount,
         HasMore |-> hasMore,
         NextPage |-> IF hasMore THEN page + 1 ELSE 0]

\* lines 826-847: Acquire, BeginTx and the COUNT statement
PaginatedCount ==
    /\ unit.fn = "runPaginatedQuery"
    /\ unit.pc = "count"
    /\ \/ unit' = [unit EXCEPT !.pc = "page", !.totalCount = QueryRows(SqlSelectUsers, table)]
       \/ \E e \in ConnErrors : unit' = [unit EXCEPT !.pc = "returned", !.err = e]
       \/ \E e \in RunErrors : unit' = [unit EXCEPT !.pc = "returned", !.err = WrapCountErr(e)]
    /\ UNCHANGED <<gate, req, proc, srvVars>>

\* another session commits an insert or a delete between the two statements
PaginatedWrite ==
    /\ unit.fn = "runPaginatedQuery"
    /\ unit.pc = "page"
    /\ ~unit.wrote
    /\ \E t \in {table - 1, table + 1} :
          /\ t \in 0..MaxTableRows
          /\ table' = t
    /\ unit' = [unit EXCEPT !.wrote = TRUE]
    /\ UNCHANGED <<gate, req, proc, cfg, cache, now, pool, call, audit, qlog>>

\* lines 849-894: the page statement with OFFSET page*pageSize (PostgreSQL
\* refuses a negative OFFSET), the rows, Commit and the result
PaginatedPage ==
    /\ unit.fn = "runPaginatedQuery"
    /\ unit.pc = "page"
    /\ LET offset == WrapInt(unit.page * unit.pageSize)
           rows   == PageRows(SqlSelectUsers, table, unit.pageSize, offset)
       IN  \/ /\ offset >= 0
              /\ unit' = [unit EXCEPT !.pc = "returned",
                                      !.out = PaginatedResult(unit.page, unit.pageSize, offset,
                                                              unit.totalCount, rows)]
           \/ /\ offset < 0
              /\ unit' = [unit EXCEPT !.pc = "returned", !.err = ErrSyntax]
           \/ \E e \in RunErrors \cup ConnErrors :
                 unit' = [unit EXCEPT !.pc = "returned", !.err = e]
    /\ UNCHANGED <<gate, req, proc, srvVars>>

PaginatedNext == PaginatedCount \/ PaginatedWrite \/ PaginatedPage

SpecPaginated == PaginatedInit /\ [][PaginatedNext]_vars

PaginatedOk == unit.fn = "runPaginatedQuery" /\ unit.pc = "returned" /\ unit.err = nil

\* C33: a successful runPaginatedQuery reports hasMore exactly when
\* page*pageSize + |rows| < totalCount and nextPage = page + 1 then, 0
\* otherwise; totalCount = 0 gives no rows and no next page, and a total below
\* the page size gives on page 0 all rows and no next page
C33_HasMoreAndNextPage ==
    PaginatedOk =>
        LET r == unit.out
        IN  /\ r.HasMore <=> (r.Page * r.PageSize + Len(r.Rows) < r.TotalCount)
            /\ r.NextPage = IF r.HasMore THEN r.Page + 1 ELSE 0
            /\ r.TotalCount = 0 => (r.Rows = <<>> /\ ~r.HasMore /\ r.NextPage = 0)
            /\ (0 < r.TotalCount /\ r.TotalCount < r.PageSize /\ r.Page = 0) =>
                  (Len(r.Rows) = r.TotalCount /\ ~r.HasMore)

\* the same when no other session wrote between the statements and
\* page*pageSize is in the range of an int
PaginatedOnStableTable ==
    (PaginatedOk /\ ~unit.wrote /\ unit.page * unit.pageSize <= MaxInt) =>
        LET r == unit.out
        IN  /\ r.HasMore <=> (r.Page * r.PageSize + Len(r.Rows) < r.TotalCount)
            /\ r.NextPage = IF r.HasMore THEN r.Page + 1 ELSE 0
            /\ r.TotalCount = 0 => (r.Rows = <<>> /\ ~r.HasMore /\ r.NextPage = 0)
            /\ (0 < r.TotalCount /\ r.TotalCount < r.PageSize /\ r.Page = 0) =>
                  (Len(r.Rows) = r.TotalCount /\ ~r.HasMore)

\* a total of 0 with a row in the page: the row was committed after the count
PaginatedRowsBeyondCount ==
    /\ PaginatedOk
    /\ unit.out.TotalCount = 0
    /\ unit.out.Rows # <<>>

-------------------------------------------------------------------------------
(* isExpensiveQuery                                                            *)

\* most JOIN keywords in a statement under study
MaxJoins == 3

JoinSpaces == {" ", "\n", "\t"}

\* a JOIN keyword in either case with the white space before and after it
JoinWords == {<<"j","o","i","n">>, <<"J","O","I","N">>}
JoinSteps == { <<b>> \o w \o <<a>> \o <<"t">> : b \in JoinSpaces, a \in JoinSpaces, w \in {<<"J","O","I","N">>} }
             \cup { <<" ">> \o w \o <<" ">> \o <<"t">> : w \in JoinWords }

\* SELECT * FROM t, followed by up to MaxJoins joined tables
RECURSIVE JoinStatements(_)
JoinStatements(n) ==
    IF n = 0 THEN { <<"S","E","L","E","C","T"," ","*"," ","F","R","O","M"," ","t">> }
    ELSE { s \o j : s \in JoinStatements(n - 1), j \in JoinSteps }

\* statements with LEFT JOIN and CROSS JOIN in either case
OuterJoinStatements ==
    { <<"S","E","L","E","C","T"," ","*"," ","F","R","O","M"," ","t"," ">> \o k \o <<" ","u">> :
        k \in { <<"L","E","F","T"," ","J","O","I","N">>, <<"l","e","f","t"," ","j","o","i","n">>,
                <<"C","R","O","S","S"," ","J","O","I","N">>, <<"C","r","o","s","s"," ","J","o","i","n">> } }

ExpensiveInputs == OuterJoinStatements \cup UNION { JoinStatements(n) : n \in 0..MaxJoins }

ExpensiveInit ==
    /\ gate = GateIdle
    /\ ServerAtRest
    /\ req = ReqNone
    /\ proc = ProcNone
    /\ unit \in [fn : {"isExpensiveQuery"}, in : ExpensiveInputs, done : {FALSE}, out : {FALSE}]

ApplyIsExpensive ==
    /\ unit.fn = "isExpensiveQuery"
    /\ ~unit.done
    /\ unit' = [unit EXCEPT !.done = TRUE, !.out = isExpensiveQuery(unit.in)]
    /\ UNCHANGED <<gate, req, proc, srvVars>>

SpecExpensive == ExpensiveInit /\ [][ApplyIsExpensive]_vars

\* the places of s where the word w stands, in either case, between white space
KeywordsAt(s, w) ==
    { i \in 2..(Len(s) - Len(w)) :
        /\ HasPrefixFoldAt(s, i, w)
        /\ s[i - 1] \in JoinSpaces
        /\ s[i + Len(w)] \in JoinSpaces }

\* s holds w1 and, after white space, JOIN
HasJoinAfter(s, w1) ==
    \E i \in 1..Len(s) :
        /\ HasPrefixFoldAt(s, i, w1)
        /\ i + Len(w1) <= Len(s)
        /\ s[i + Len(w1)] \in JoinSpaces
        /\ HasPrefixFoldAt(s, i + Len(w1) + 1, <<"j","o","i","n">>)

ExpensiveAsStated(s) ==
    \/ HasJoinAfter(s, <<"l","e","f","t">>)
    \/ HasJoinAfter(s, <<"c","r","o","s","s">>)
    \/ Cardinality(KeywordsAt(s, <<"j","o","i","n">>)) > 2

IsExpensiveDone == unit.fn = "isExpensiveQuery" /\ unit.done

\* C34: isExpensiveQuery is true exactly for LEFT JOIN, CROSS JOIN or more
\* than two JOIN keywords, in either case, whatever white space (space,
\* newline or tab) stands before and after each JOIN
C34_ExpensiveIffJoins == IsExpensiveDone => (unit.out <=> ExpensiveAsStated(unit.in))

\* the same for statements whose JOIN keywords stand between single spaces
ExpensiveBetweenSpaces ==
    (IsExpensiveDone /\ \A i \in 1..Len(unit.in) : unit.in[i] \notin {"\n", "\t"}) =>
        (unit.out <=> ExpensiveAsStated(unit.in))

\* three JOIN keywords, one of them after a newline, pass as not expensive
ExpensiveMissed ==
    /\ IsExpensiveDone
    /\ Cardinality(KeywordsAt(unit.in, <<"j","o","i","n">>)) = 3
    /\ \E i \in 1..Len(unit.in) : unit.in[i] = "\n"
    /\ ~unit.out

-------------------------------------------------------------------------------
(* ask with and without dry_run on the same answer of the language model      *)

AdmitNone == [err |-> nil, ran |-> FALSE, sql |-> <<>>]

\* one answer of the language model, handed to an ask with dry_run = true and
\* to an ask with dry_run = false
DryRunInit ==
    /\ gate = GateIdle
    /\ ServerAtRest
    /\ req = ReqNone
    /\ proc = ProcNone
    /\ unit \in [fn : {"dryRun"}, answer : GateStrings \cup GateSamples,
                 dryDone : {FALSE}, dry : {AdmitNone}, runDone : {FALSE}, run : {AdmitNone}]

\* handleAsk, lines 534-543
ApplyDryRun ==
    /\ unit.fn = "dryRun"
    /\ ~unit.dryDone
    /\ unit' = [unit EXCEPT !.dryDone = TRUE, !.dry = AskDryRun(generateSQL(unit.answer))]
    /\ UNCHANGED <<gate, req, proc, srvVars>>

\* handleAsk, lines 545-556
ApplyRun ==
    /\ unit.fn = "dryRun"
    /\ ~unit.runDone
    /\ unit' = [unit EXCEPT !.runDone = TRUE, !.run = AskAdmit(generateSQL(unit.answer))]
    /\ UNCHANGED <<gate, req, proc, srvVars>>

DryRunNext == ApplyDryRun \/ ApplyRun

SpecDryRun == DryRunInit /\ [][DryRunNext]_vars

BothModesDone == unit.fn = "dryRun" /\ unit.dryDone /\ unit.runDone

\* C35: for the same answer of the language model, the SQL a dry run reports
\* is the SQL the run without dry_run executes and reports, and both are
\* refused by the guard alike
C35_DryRunSameSql ==
    BothModesDone =>
        /\ unit.dry.err = unit.run.err
        /\ unit.dry.sql = unit.run.sql

\* the guard decides alike in both modes, and the SQL is the same whenever
\* the statement is not expensive
DryRunSameGuard ==
    BothModesDone =>
        /\ unit.dry.err = unit.run.err
        /\ ~isExpensiveQuery(generateSQL(unit.answer)) => unit.dry.sql = unit.run.sql

\* an expensive statement: the dry run reports it, the run executes another
DryRunDiffers ==
    /\ BothModesDone
    /\ unit.dry.err = nil
    /\ unit.run.ran
    /\ unit.dry.sql # unit.run.sql
    /\ isExpensiveQuery(unit.dry.sql)

-------------------------------------------------------------------------------
(* has_more of ask                                                             *)

\* an ask whose statement was run by the executor without an error
AskRanAndSucceeded ==
    /\ call.pc = "returned"
    /\ call.tool = "ask"
    /\ call.exec = "stream"
    /\ call.execErr = nil
    /\ call.err = nil

\* C36: in a successful ask response has_more is true exactly when the query
\* matches more rows than the response holds
C36_HasMoreIffCut ==
    AskRanAndSucceeded => (call.out.HasMore <=> Len(call.out.Rows) < call.totalCount)

\* has_more is never set by ask
AskHasMoreUnset == (call.pc = "returned" /\ call.tool = "ask") => ~call.out.HasMore

\* the page budget cut the result of an ask on a relation nobody wrote to,
\* and has_more is false
AskCutUnreported ==
    /\ AskRanAndSucceeded
    /\ call.totalCount = table
    /\ Len(call.out.Rows) = call.pageSize * call.maxPages
    /\ Len(call.out.Rows) < call.totalCount
    /\ ~call.out.HasMore

-------------------------------------------------------------------------------
(* generateSQL on the responses of the language-model endpoint                *)

\* most choices in a response under study
MaxChoices == 2

ChoiceContents == GateSamples \cup {SqlFenced}

\* what Chat.Completions.New returns: an error, or a response whose choices
\* list holds any number of choices, none included
LlmResponses ==
    { [err |-> ErrLlm, choices |-> <<>>] }
    \cup { [err |-> nil, choices |-> cs] :
             cs \in UNION { [1..n -> ChoiceContents] : n \in 0..MaxChoices } }

TranslateNone == [sql |-> <<>>, note |-> <<>>, err |-> nil]

TranslateInit ==
    /\ gate = GateIdle
    /\ ServerAtRest
    /\ req = ReqNone
    /\ proc = ProcNone
    /\ unit \in [fn : {"generateSQL"}, resp : LlmResponses, pc : {"called"},
                 out : {TranslateNone}]

\* lines 1116-1118 and 1119-1123: the error of the call is returned, or the
\* content of resp.Choices[0] is trimmed and returned with the note
GenerateReturns ==
    /\ unit.fn = "generateSQL"
    /\ unit.pc = "called"
    /\ unit.resp.err # nil \/ Len(unit.resp.choices) > 0
    /\ unit' = [unit EXCEPT
                  !.pc = "returned",
                  !.out = IF unit.resp.err # nil
                          THEN [TranslateNone EXCEPT !.err = unit.resp.err]
                          ELSE [sql |-> generateSQL(unit.resp.choices[1]),
                                note |-> NoteModel, err |-> nil]]
    /\ UNCHANGED <<gate, req, proc, srvVars>>

\* line 1119: resp.Choices[0] on an empty list is a run-time panic (index out
\* of range); nothing in the program recovers it
GeneratePanics ==
    /\ unit.fn = "generateSQL"
    /\ unit.pc = "called"
    /\ unit.resp.err = nil
    /\ Len(unit.resp.choices) = 0
    /\ unit' = [unit EXCEPT !.pc = "panicked"]
    /\ UNCHANGED <<gate, req, proc, srvVars>>

TranslateNext == GenerateReturns \/ GeneratePanics

SpecTranslate == TranslateInit /\ [][TranslateNext]_vars

\* C37: on every response, one with an empty choices list included,
\* generateSQL returns a SQL string or an error and never aborts
C37_ReturnsSqlOrError ==
    unit.fn = "generateSQL" =>
        /\ unit.pc # "panicked"
        /\ unit.pc = "returned" => (unit.out.err # nil \/ unit.out.note = NoteModel)

\* on every response with at least one choice, and on every error of the
\* call, generateSQL returns
ReturnsOnNonEmptyChoices ==
    (unit.fn = "generateSQL" /\ (unit.resp.err # nil \/ Len(unit.resp.choices) > 0)) =>
        unit.pc # "panicked"

\* a well-formed response without choices made the invocation abort
PanicOnEmptyChoices ==
    /\ unit.fn = "generateSQL"
    /\ unit.pc = "panicked"
    /\ unit.resp = [err |-> nil, choices |-> <<>>]

-------------------------------------------------------------------------------
(* mustConfig: the environment at startup                                     *)

\* the digits s begins with from index i on
RECURSIVE LeadingDigits(_, _)
LeadingDigits(s, i) ==
    IF i <= Len(s) /\ IsDigitCh(s[i]) THEN <<s[i]>> \o LeadingDigits(s, i + 1) ELSE <<>>

DurationUnits ==
    { [name |-> <<"m","s">>, ms |-> 1], [name |-> <<"s">>, ms |-> Second],
      [name |-> <<"m">>, ms |-> Minute], [name |-> <<"h">>, ms |-> Hour] }

\* time.ParseDuration on a value of the form [-]digits unit (the values under
\* study hold one such term or are no duration): the duration in milliseconds
ParseDuration(v) ==
    LET neg  == Len(v) > 0 /\ v[1] = "-"
        from == IF neg THEN 2 ELSE 1
        ds   == LeadingDigits(v, from)
        rest == SubSeq(v, from + Len(ds), Len(v))
        us   == { u \in DurationUnits : u.name = rest }
    IN  IF ds = <<>> \/ us = {} THEN [ok |-> FALSE, d |-> 0]
        ELSE LET u == CHOOSE x \in us : TRUE
             IN  [ok |-> TRUE, d |-> IF neg THEN 0 - Atoi(ds) * u.ms ELSE Atoi(ds) * u.ms]

\* fmt.Sscanf(v, "%d", &mr): an optional sign and the digits v begins with;
\* what follows them is not read
SscanfInt(v) ==
    LET neg  == Len(v) > 0 /\ v[1] \in {"-", "+"}
        from == IF neg THEN 2 ELSE 1
        ds   == LeadingDigits(v, from)
    IN  IF ds = <<>> THEN [ok |-> FALSE, n |-> 0]
        ELSE [ok |-> TRUE, n |-> IF v[1] = "-" THEN 0 - Atoi(ds) ELSE Atoi(ds)]

\* values of SCHEMA_TTL, QUERY_TIMEOUT and MAX_ROWS; <<>> is an unset variable
SchemaTTLValues ==
    { <<>>, <<"a","b","c">>, <<"1","s">>, <<"2","9","s">>, <<"3","0","s">>, <<"1","0","m">>,
      <<"2","4","h">>, <<"2","5","h">>, <<"-","5","m">> }

QueryTimeoutValues ==
    { <<>>, <<"x">>, <<"5","0","0","m","s">>, <<"1","s">>, <<"2","5","s">>, <<"5","m">>,
      <<"6","m">> }

MaxRowsValues ==
    { <<>>, <<"a","b","c">>, <<"0">>, <<"-","5">>, <<"1">>, <<"2","0","0">>,
      <<"1","0","0","0","0">>, <<"1","0","0","0","1">>, <<"1","2","a","b","c">> }

ConfigNone == [DatabaseURL |-> <<>>, MaxRows |-> 0, QueryTO |-> 0, SchemaTTL |-> 0]

MustConfigInit ==
    /\ gate = GateIdle
    /\ ServerAtRest
    /\ req = ReqNone
    /\ proc = ProcNone
    /\ unit \in [fn : {"mustConfig"},
                 env : [SCHEMA_TTL : SchemaTTLValues, QUERY_TIMEOUT : QueryTimeoutValues,
                        MAX_ROWS : MaxRowsValues],
                 pc : {"start"}, cfg : {ConfigNone}, warnings : {<<>>}]

\* lines 210-237: the three values as mustConfig takes them, with the keys it
\* warns about
EnvConfig(env) ==
    LET t == ParseDuration(env.SCHEMA_TTL)
        q == ParseDuration(env.QUERY_TIMEOUT)
        m == SscanfInt(env.MAX_ROWS)
        mOk == m.ok /\ m.n > 0
    IN  [cfg |-> [DatabaseURL |-> <<"postgres://localhost/db">>,
                  SchemaTTL |-> IF env.SCHEMA_TTL # <<>> /\ t.ok THEN t.d ELSE defaultSchemaTTL,
                  QueryTO |-> IF env.QUERY_TIMEOUT # <<>> /\ q.ok THEN q.d ELSE defaultQueryTimeout,
                  MaxRows |-> IF env.MAX_ROWS # <<>> /\ mOk THEN m.n ELSE defaultMaxRows],
         warnings |->
              (IF env.SCHEMA_TTL # <<>> /\ ~t.ok THEN <<"SCHEMA_TTL">> ELSE <<>>)
              \o (IF env.QUERY_TIMEOUT # <<>> /\ ~q.ok THEN <<"QUERY_TIMEOUT">> ELSE <<>>)
              \o (IF env.MAX_ROWS # <<>> /\ ~mOk THEN <<"MAX_ROWS">> ELSE <<>>)]

\* lines 239-258: the warnings are logged, Validate accepts the configuration
\* and mustConfig returns it
MustConfigReturns ==
    /\ unit.fn = "mustConfig"
    /\ unit.pc = "start"
    /\ Validate(EnvConfig(unit.env).cfg) = nil
    /\ unit' = [unit EXCEPT !.pc = "returned", !.cfg = EnvConfig(unit.env).cfg,
                            !.warnings = EnvConfig(unit.env).warnings]
    /\ UNCHANGED <<gate, req, proc, srvVars>>

\* lines 254-256: Validate refuses the configuration and log.Fatal ends the
\* process
MustConfigFatal ==
    /\ unit.fn = "mustConfig"
    /\ unit.pc = "start"
    /\ Validate(EnvConfig(unit.env).cfg) # nil
    /\ unit' = [unit EXCEPT !.pc = "fatal", !.cfg = EnvConfig(unit.env).cfg,
                            !.warnings = EnvConfig(unit.env).warnings]
    /\ UNCHANGED <<gate, req, proc, srvVars>>

MustConfigNext == MustConfigReturns \/ MustConfigFatal

SpecConfig == MustConfigInit /\ [][MustConfigNext]_vars

\* the keys whose value parses and lies outside the accepted range
ParsedOutOfRange(env) ==
    (IF env.SCHEMA_TTL # <<>> /\ ParseDuration(env.SCHEMA_TTL).ok
        /\ ~(ParseDuration(env.SCHEMA_TTL).d >= 30000 /\ ParseDuration(env.SCHEMA_TTL).d <= 86400000)
     THEN {"SCHEMA_TTL"} ELSE {})
    \cup (IF env.QUERY_TIMEOUT # <<>> /\ ParseDuration(env.QUERY_TIMEOUT).ok
             /\ ~(ParseDuration(env.QUERY_TIMEOUT).d >= 1000 /\ ParseDuration(env.QUERY_TIMEOUT).d <= 300000)
          THEN {"QUERY_TIMEOUT"} ELSE {})
    \cup (IF env.MAX_ROWS # <<>> /\ SscanfInt(env.MAX_ROWS).ok
             /\ SscanfInt(env.MAX_ROWS).n \notin 1..10000
          THEN {"MAX_ROWS"} ELSE {})

DefaultOf(k) ==
    IF k = "SCHEMA_TTL" THEN 300000 ELSE IF k = "QUERY_TIMEOUT" THEN 25000 ELSE 200

TakenFor(c, k) ==
    IF k = "SCHEMA_TTL" THEN c.SchemaTTL ELSE IF k = "QUERY_TIMEOUT" THEN c.QueryTO ELSE c.MaxRows

MustConfigDone == unit.fn = "mustConfig" /\ unit.pc # "start"

\* C38: a SCHEMA_TTL, QUERY_TIMEOUT or MAX_ROWS that parses and is out of
\* range gets a warning and the default value, and startup goes on
C38_InvalidFallsBack ==
    MustConfigDone =>
        /\ \A k \in ParsedOutOfRange(unit.env) :
              /\ \E i \in 1..Len(unit.warnings) : unit.warnings[i] = k
              /\ TakenFor(unit.cfg, k) = DefaultOf(k)
        /\ unit.pc = "returned"

\* what mustConfig does: only a MAX_ROWS that is not positive falls back with
\* a warning; every other parsed value out of range ends the process
FatalIffParsedOutOfRange ==
    MustConfigDone =>
        /\ unit.pc = "fatal" <=>
              \E k \in ParsedOutOfRange(unit.env) :
                  ~(k = "MAX_ROWS" /\ SscanfInt(unit.env.MAX_ROWS).n <= 0)
        /\ (unit.env.MAX_ROWS # <<>> /\ SscanfInt(unit.env.MAX_ROWS).ok
              /\ SscanfInt(unit.env.MAX_ROWS).n <= 0) =>
              /\ unit.cfg.MaxRows = 200
              /\ \E i \in 1..Len(unit.warnings) : unit.warnings[i] = "MAX_ROWS"

\* SCHEMA_TTL=1s with nothing else set: no warning, and the process ends
FatalOnShortTTL ==
    /\ MustConfigDone
    /\ unit.env = [SCHEMA_TTL |-> <<"1","s">>, QUERY_TIMEOUT |-> <<>>, MAX_ROWS |-> <<>>]
    /\ unit.warnings = <<>>
    /\ unit.pc = "fatal"

-------------------------------------------------------------------------------
(* The TABLE and FK lines of the schema summary                               *)

\* names of tables and columns, as pg_class and pg_attribute may hold them
CatalogNames ==
    { <<"u","s","e","r","s">>, <<"_","x","1">>, <<"B","o","o","k">>, <<"u","s","e","r","I","d">>,
      <<"o","r","d","e","r"," ","i","t","e","m">>, <<"1","s","t">>, <<"a","-","b">>,
      <<"i","d","\n">> }

\* most columns of a table under study
MaxColumns == 2

\* the rows of cols for one table, in the order of string_agg (ORDER BY
\* cols.column), and one row of fks
CatalogTables ==
    [kind : {"TABLE"}, table : CatalogNames,
     columns : UNION { [1..n -> [name : CatalogNames, pk : BOOLEAN]] : n \in 1..MaxColumns }]

CatalogFks ==
    [kind : {"FK"}, src_table : CatalogNames, src_column : {<<"u","s","e","r","I","d">>, <<"_","x","1">>, <<"1","s","t">>},
     dst_table : CatalogNames, dst_column : {<<"i","d","\n">>, <<"u","s","e","r","s">>, <<"B","o","o","k">>}]

\* lines 161-165: one column of a TABLE line
ColumnItem(c) ==
    SchemaIdent(c.name) \o <<" ","i","n","t","e","g","e","r">>
    \o (IF c.pk THEN <<" ","P","R","I","M","A","R","Y"," ","K","E","Y">> ELSE <<>>)

\* string_agg(..., ', ')
RECURSIVE ColumnItems(_)
ColumnItems(cs) ==
    IF cs = <<>> THEN <<>>
    ELSE IF Len(cs) = 1 THEN ColumnItem(cs[1])
    ELSE ColumnItem(cs[1]) \o <<",", " ">> \o ColumnItems(Tail(cs))

\* lines 151-167: the TABLE line of a table of schema public
TableLine(t) ==
    <<"T","A","B","L","E"," ","p","u","b","l","i","c",".">> \o SchemaIdent(t.table)
    \o <<"(">> \o ColumnItems(t.columns) \o <<")">>

\* lines 170-185: the FK line of an edge between tables of schema public
FkLine(f) ==
    <<"F","K"," ","p","u","b","l","i","c",".">> \o SchemaIdent(f.src_table)
    \o <<"(">> \o SchemaIdent(f.src_column) \o <<")"," ","-",">"," ","p","u","b","l","i","c",".">>
    \o SchemaIdent(f.dst_table) \o <<"(">> \o SchemaIdent(f.dst_column) \o <<")">>

SchemaLinesInit ==
    /\ gate = GateIdle
    /\ ServerAtRest
    /\ req = ReqNone
    /\ proc = ProcNone
    /\ unit \in [fn : {"loadSchema"}, row : CatalogTables \cup CatalogFks, done : {FALSE},
                 line : {<<>>}]

\* the catalog query emits the line of a table
EmitTableLine ==
    /\ unit.fn = "loadSchema"
    /\ ~unit.done
    /\ unit.row.kind = "TABLE"
    /\ unit' = [unit EXCEPT !.done = TRUE, !.line = TableLine(unit.row)]
    /\ UNCHANGED <<gate, req, proc, srvVars>>

\* the catalog query emits the line of a foreign key
EmitFkLine ==
    /\ unit.fn = "loadSchema"
    /\ ~unit.done
    /\ unit.row.kind = "FK"
    /\ unit' = [unit EXCEPT !.done = TRUE, !.line = FkLine(unit.row)]
    /\ UNCHANGED <<gate, req, proc, srvVars>>

SchemaLinesNext == EmitTableLine \/ EmitFkLine

SpecSchemaLines == SchemaLinesInit /\ [][SchemaLinesNext]_vars

\* name matches ^[a-z_][a-z0-9_]*$, read one character after the other
RECURSIVE RestPlain(_, _)
RestPlain(name, i) ==
    IF i > Len(name) THEN TRUE
    ELSE IF name[i] \in Range(LowerLetters) \/ name[i] \in Range(Digits) \/ name[i] = "_"
    THEN RestPlain(name, i + 1)
    ELSE FALSE

MatchesPlain(name) ==
    /\ name # <<>>
    /\ name[1] \in Range(LowerLetters) \/ name[1] = "_"
    /\ RestPlain(name, 2)

\* the field of line that begins at index i holds name as the rule states:
\* bare when it matches, between double quotes otherwise
FieldAt(line, i, name) ==
    IF MatchesPlain(name)
    THEN HasPrefixAt(line, i, name)
    ELSE /\ i <= Len(line) /\ line[i] = "\""
         /\ HasPrefixAt(line, i + 1, name)
         /\ i + Len(name) + 1 <= Len(line) /\ line[i + Len(name) + 1] = "\""

\* the length of that field
FieldLen(name) == IF MatchesPlain(name) THEN Len(name) ELSE Len(name) + 2

\* the index where column k of a TABLE row begins in its line
RECURSIVE ColumnStart(_, _)
ColumnStart(t, k) ==
    IF k = 1 THEN 13 + FieldLen(t.table) + 2
    ELSE ColumnStart(t, k - 1) + FieldLen(t.columns[k - 1].name) + 8
         + (IF t.columns[k - 1].pk THEN 12 ELSE 0) + 2

SchemaLineEmitted == unit.fn = "loadSchema" /\ unit.done

\* C39: in a TABLE line and in an FK line every table and column identifier
\* stands bare exactly when it matches ^[a-z_][a-z0-9_]*$ and between double
\* quotes otherwise, on both sides of an FK edge
C39_QuotedIffNotPlain ==
    SchemaLineEmitted =>
        LET r == unit.row
            l == unit.line
        IN  IF r.kind = "TABLE"
            THEN /\ FieldAt(l, 14, r.table)
                 /\ l[14 + FieldLen(r.table)] = "("
                 /\ \A k \in 1..Len(r.columns) :
                       /\ FieldAt(l, ColumnStart(r, k), r.columns[k].name)
                       /\ l[ColumnStart(r, k) + FieldLen(r.columns[k].name)] = " "
            ELSE LET a == 11
                     b == a + FieldLen(r.src_table) + 1
                     c == b + FieldLen(r.src_column) + 12
                     d == c + FieldLen(r.dst_table) + 1
                 IN  /\ FieldAt(l, a, r.src_table)
                     /\ l[b - 1] = "("
                     /\ FieldAt(l, b, r.src_column)
                     /\ FieldAt(l, c, r.dst_table)
                     /\ l[d - 1] = "("
                     /\ FieldAt(l, d, r.dst_column)
                     /\ Len(l) = d + FieldLen(r.dst_column)

\* C39: an FK line with a quoted and a bare identifier on each side
C39_Witness ==
    /\ SchemaLineEmitted
    /\ unit.row.kind = "FK"
    /\ unit.row.src_table = <<"u","s","e","r","s">>
    /\ unit.row.src_column = <<"u","s","e","r","I","d">>
    /\ unit.row.dst_table = <<"o","r","d","e","r"," ","i","t","e","m">>
    /\ unit.row.dst_column = <<"u","s","e","r","s">>
    /\ unit.line[17] = "\""
    /\ unit.line[Len(unit.line) - 1] = "s"

====
